---------------------------- MODULE Spec2Model ----------------------------
(***************************************************************************)
(* A model of the criterion / target / range evaluation engine of          *)
(* iamcompact-vetting:                                                     *)
(*   - CriterionTargetRange (targets/target_classes.py): construction,     *)
(*     the target / range / unit-specification setters, in_range and the   *)
(*     default distance function;                                          *)
(*   - TimeseriesRefCriterion (iam/timeseries_criteria_core.py): compare,  *)
(*     the two aggregations and their order;                               *)
(*   - IamDataFrameTimeseriesVetter (iam/iam_vetter_core.py): broadcasting *)
(*     of the target and the variable difference comparison;               *)
(*   - make_consistent_units (pyam_helpers.py) and the ratio comparison.   *)
(*                                                                         *)
(* Python's None is the empty tuple <<>>, an optional value x is <<x>>, a   *)
(* (lower, upper) range is the tuple <<lower, upper>>.  Numbers are         *)
(* integers; quotients are exact fractions <<numerator, denominator>> in    *)
(* lowest terms with a positive denominator.  NaN inputs are not modelled.  *)
(***************************************************************************)
EXTENDS Integers, Sequences, FiniteSets, TLC

VARIABLES
    \* ---- one CriterionTargetRange object and its criterion ----
    phase,                  \* "new" | "live" | "failed" (the constructor raised)
    criterion,              \* [has_unit: BOOLEAN, unit: None or <<u>>]
    target,                 \* _target: None until first assigned, then <<t>>
    range,                  \* _range: None or <<lower, upper>>
    unit,                   \* _unit: None or <<u>>
    value_unit,             \* _value_unit: None or <<u>>
    convert_value_units,    \* _convert_value_units: None, <<TRUE>> or <<FALSE>>
    convert_input_units,    \* _convert_input_units: <<TRUE>> or <<FALSE>>
    last,                   \* the last call on the object: [op, arg, out]
    reassigned,             \* target or range was assigned after construction
    \* ---- one TimeseriesRefCriterion and a call of aggregate_time_and_region ----
    agg_dim_order,          \* self.agg_dim_order
    region_agg,             \* self._region_agg.func
    time_agg,               \* self._time_agg.func
    aggIn,                  \* the series s passed in (the result of compare)
    aggMid,                 \* the result of the inner call, passed to the outer one
    aggOut,                 \* the returned series
    aggPc,                  \* "ready" | "done"
    \* ---- one call of a pyam_series_comparison wrapper (match_units=True) ----
    iamdf1,                 \* the first argument: the reference, to be converted
    iamdf2,                 \* the second argument: the data whose units are matched
    consistent,             \* the outcome of make_consistent_units(iamdf1, iamdf2)
    unPc,                   \* "ready" | "done"
    \* ---- one comparison of a dataset against a target dataset ----
    data,                   \* the dataset being vetted (the subject)
    reference,              \* the target dataset the comparator is bound to
    match_dims,             \* IamDataFrameTimeseriesComparisonSpec.match_dims
    use_abs_diff,           \* IamDataFrameVariableDiff(use_abs_diff=...)
    target_broadcasted,     \* outcome of the broadcast of the target
    compared,               \* outcome of the comparison function
    result,                 \* outcome of the whole call
    cmpPc,                  \* "ready" | "checked" | "compared"
    \* ---- one call of a ratio comparison on two aligned series ----
    subject,                \* the series of the data being vetted
    ref,                    \* the series of the reference
    div_by_zero_value,      \* get_ratio_comparison(div_by_zero_value=...)
    zero_by_zero_value,     \* get_ratio_comparison(zero_by_zero_value=...)
    ratio,                  \* the series returned
    ratioPc,                \* "ready" | "done"
    \* ---- the aggregation arguments of TimeseriesRefCriterion.__init__ ----
    region_agg_arg,         \* the region_agg argument, in any form
    time_agg_arg,           \* the time_agg argument, in any form
    crit_region_agg,        \* outcome for self._region_agg
    crit_time_agg,          \* outcome for self._time_agg
    normPc,                 \* "ready" | "done"
    \* ---- a target range built with a RelativeRange ----
    relPhase,               \* "idle" | "new" | "live" | "failed"
    relTarget,              \* the target, None before construction
    relFactors,             \* the RelativeRange (lower, upper factors)
    relRange,               \* the absolute bounds, None before construction
    relLast,                \* [op, arg, out] of the last operation
    \* ---- invocations of get_values on one TimeseriesRefCriterion ----
    calls,                  \* per invocation: position, subject and locals
    \* ---- one IamDataFrameTimeseriesVetter and a call of check ----
    vetData,                \* the dataset passed to check
    vetTarget,              \* self.target_value
    vetFilter,              \* self.filter, by name
    comparisons,            \* self.comparisons
    checked,                \* outcome of check
    vetPc,                  \* "ready" | "done"
    \* ---- a comparison function wrapped by log_variable_mismatches ----
    logData,                \* data.variable of the call
    logTarget,              \* target.variable of the call
    logger,                 \* the logger argument, None when not given
    logged,                 \* the calls made on the logger, in order
    logPc,                  \* "ready" | "done"
    \* ---- the construction of a TimeseriesRefComparisonAndTargetOutput ----
    outArgs,                \* which arguments of __init__ are not None
    outObject,              \* outcome of __init__: the attributes, or the exception
    outPc,                  \* "ready" | "done"
    \* ---- one call of ResultOutput.write_results ----
    wrSelf,                 \* self.criteria and self.writer
    wrArgs,                 \* the arguments data, criteria and writer of the call
    wrTrace,                \* the calls of prepare_output and write made so far, with outcomes
    wrOutput,               \* the local variable output
    wrResult,               \* outcome of write_results
    wrPc,                   \* "ready" | "prepare" | "write" | "done"
    \* ---- the module-level cache of get_gdp_pop_harmonisation_iamdf ----
    iamdf_cache,            \* the two module globals, by variant: None or the loaded object
    loads,                  \* per variant, the number of completed loads of the data file
    forced,                 \* per variant, whether a call has asked for force_reload
    ncalls,                 \* the number of calls made
    lastGet                 \* the last call: arguments, cache before it, whether it loaded, outcome

trVars == <<phase, criterion, target, range, unit, value_unit,
            convert_value_units, convert_input_units, last, reassigned>>

aggVars == <<agg_dim_order, region_agg, time_agg, aggIn, aggMid, aggOut, aggPc>>

unVars == <<iamdf1, iamdf2, consistent, unPc>>

cmpVars == <<data, reference, match_dims, use_abs_diff, target_broadcasted,
             compared, result, cmpPc>>

ratioVars == <<subject, ref, div_by_zero_value, zero_by_zero_value, ratio,
               ratioPc>>

normVars == <<region_agg_arg, time_agg_arg, crit_region_agg, crit_time_agg,
              normPc>>

relVars == <<relPhase, relTarget, relFactors, relRange, relLast>>

vetVars == <<vetData, vetTarget, vetFilter, comparisons, checked, vetPc>>

logVars == <<logData, logTarget, logger, logged, logPc>>

outVars == <<outArgs, outObject, outPc>>

wrVars == <<wrSelf, wrArgs, wrTrace, wrOutput, wrResult, wrPc>>

cacheVars == <<iamdf_cache, loads, forced, ncalls, lastGet>>

\* The configuration of a criterion that get_values reads.
critConfig == <<reference, agg_dim_order, region_agg, time_agg>>

vars == <<trVars, aggVars, unVars, cmpVars, ratioVars, normVars, relVars, calls, vetVars, logVars, outVars, wrVars, cacheVars>>

\* What the calls on one kind of object leave alone: the other objects.
notTR == <<aggVars, unVars, cmpVars, ratioVars, normVars, relVars, calls, vetVars, logVars, outVars, wrVars, cacheVars>>
notAgg == <<trVars, unVars, cmpVars, ratioVars, normVars, relVars, calls, vetVars, logVars, outVars, wrVars, cacheVars>>
notUn == <<trVars, aggVars, cmpVars, ratioVars, normVars, relVars, calls, vetVars, logVars, outVars, wrVars, cacheVars>>
notCmp == <<trVars, aggVars, unVars, ratioVars, normVars, relVars, calls, vetVars, logVars, outVars, wrVars, cacheVars>>
notRatio == <<trVars, aggVars, unVars, cmpVars, normVars, relVars, calls, vetVars, logVars, outVars, wrVars, cacheVars>>
notNorm == <<trVars, aggVars, unVars, cmpVars, ratioVars, relVars, calls, vetVars, logVars, outVars, wrVars, cacheVars>>
notRel == <<trVars, aggVars, unVars, cmpVars, ratioVars, normVars, calls, vetVars, logVars, outVars, wrVars, cacheVars>>
notVet == <<trVars, aggVars, unVars, cmpVars, ratioVars, normVars, relVars, calls, logVars, outVars, wrVars, cacheVars>>
notLog == <<trVars, aggVars, unVars, cmpVars, ratioVars, normVars, relVars, calls, vetVars, outVars, wrVars, cacheVars>>
notOut == <<trVars, aggVars, unVars, cmpVars, ratioVars, normVars, relVars, calls, vetVars, logVars, wrVars, cacheVars>>
notWr == <<trVars, aggVars, unVars, cmpVars, ratioVars, normVars, relVars, calls, vetVars, logVars, outVars, cacheVars>>
notCache == <<trVars, aggVars, unVars, cmpVars, ratioVars, normVars, relVars, calls, vetVars, logVars, outVars, wrVars>>
notCalls == <<cacheVars,
              wrVars,
              outVars,
              logVars,
              trVars, unVars, ratioVars, normVars, relVars, vetVars,
              aggIn, aggMid, aggOut, aggPc,
              data, match_dims, use_abs_diff, target_broadcasted, compared,
              result, cmpPc>>

-----------------------------------------------------------------------------
(* Bounds of the model *)

\* Targets, range bounds and queried values are drawn from 0 .. MaxVal.
MaxVal == 2

\* The values of a comparison series are drawn from 0 .. MaxCell.
MaxCell == 1

\* A dataset given to make_consistent_units has at most MaxRows rows.
MaxRows == 2

\* The datasets of a comparison have at most MaxCmpRows rows each.
MaxCmpRows == 2

\* The values of the series given to a ratio comparison are 0 .. MaxRatioVal.
MaxRatioVal == 2

\* The targets of a relative target range are -MaxRelTarget .. MaxRelTarget.
MaxRelTarget == 3

\* The datasets given to a vetter have at most MaxVetRows rows.
MaxVetRows == 3

\* get_gdp_pop_harmonisation_iamdf is called at most MaxGetCalls times.
MaxGetCalls == 4

-----------------------------------------------------------------------------
(* Python values *)

None == <<>>
Some(x) == <<x>>
PyTrue == <<TRUE>>
PyFalse == <<FALSE>>

\* `if x:` for x in {None, True, False}.
Truthy(x) == x = PyTrue

\* `x if x is not None else dflt`
OrElse(x, dflt) == IF x = None THEN dflt ELSE x

Vals == 0 .. MaxVal

\* The values in_range and the distance are asked for: also below and above
\* every target and bound.
QueryVals == (0 - 1) .. (MaxVal + 1)
Ranges == {None} \cup (Vals \X Vals)
Units == {"EJ/yr"}
OptUnits == {None} \cup {Some(u) : u \in Units}
OptBools == {None, PyTrue, PyFalse}
Bools == {PyTrue, PyFalse}

\* A criterion without a `unit` attribute, with `unit = None`, or with a unit.
Criteria == {[has_unit |-> FALSE, unit |-> None],
             [has_unit |-> TRUE, unit |-> None],
             [has_unit |-> TRUE, unit |-> Some("EJ/yr")]}

\* The outcome of a call: it returned (tag "ok", val the returned value, None
\* for a procedure) or raised the exception class named by tag.
Returned(v) == [tag |-> "ok", val |-> v]
Raised(e) == [tag |-> e, val |-> None]

-----------------------------------------------------------------------------
(* Exact fractions *)

Abs(x) == IF x < 0 THEN -x ELSE x

RECURSIVE GCD(_, _)
GCD(a, b) == IF b = 0 THEN a ELSE GCD(b, a % b)

\* n / d for d # 0, in lowest terms with a positive denominator.
Frac(n, d) ==
    LET g == GCD(Abs(n), Abs(d))
        s == IF d < 0 THEN -1 ELSE 1
    IN  <<(s * n) \div g, (s * d) \div g>>

\* Python's `n / d` on numbers: ZeroDivisionError when d is zero.
TrueDiv(n, d) ==
    IF d = 0 THEN Raised("ZeroDivisionError") ELSE Returned(Frac(n, d))

Whole(n) == <<n, 1>>

-----------------------------------------------------------------------------
(* CriterionTargetRange: pure parts *)

\* _distance_func_without_range
distance_func_without_range(value, tgt) == Returned(Whole(value - tgt))

\* _distance_func_with_range
distance_func_with_range(value, tgt, rng) ==
    IF value > tgt
        THEN TrueDiv(value - tgt, rng[2] - tgt)
        ELSE TrueDiv(tgt - value, tgt - rng[1])

\* A default distance that never looks at the range, the faulty variant of
\* default_distance_func below.
default_distance_func_IgnoresRange(value) ==
    distance_func_without_range(value, target[1])

\* _default_distance_func: reads the current target and range.
default_distance_func(value) ==
    IF range = None
        THEN distance_func_without_range(value, target[1])
        ELSE distance_func_with_range(value, target[1], range)

\* in_range that accepts every value, the faulty variant of in_range used
\* for the agreement of in_range and distance.
in_range_AcceptsAll(value) ==
    IF range = None THEN Raised("ValueError") ELSE Returned(PyTrue)

\* in_range with the upper bound excluded.
in_range_UpperExclusive(value) ==
    IF range = None
        THEN Raised("ValueError")
        ELSE Returned(Some(range[1] <= value /\ value < range[2]))

\* in_range
in_range(value) ==
    IF range = None
        THEN Raised("ValueError")
        ELSE Returned(Some(range[1] <= value /\ value <= range[2]))

\* The `target` setter checking the upper bound only.
target_setter_check_UpperOnly(rng, value) ==
    IF rng # None /\ value > rng[2] THEN "ValueError" ELSE "ok"

\* The check of the `target` setter: the exception it raises, or "ok".
\* rng is self.range at the time of the assignment.
target_setter_check(rng, value) ==
    IF rng # None /\ (value < rng[1] \/ value > rng[2])
        THEN "ValueError"
        ELSE "ok"

\* The `range` setter without the check that the range contains the target.
range_setter_check_NoTargetCheck(tgt, value) ==
    IF value = None THEN "ok"
    ELSE IF value[1] > value[2] THEN "ValueError"
    ELSE "ok"

\* The checks of the `range` setter, in the order of the code.
\* tgt is self.target at the time of the assignment.
range_setter_check(tgt, value) ==
    IF value = None THEN "ok"
    ELSE IF value[1] > value[2] THEN "ValueError"
    ELSE IF tgt < value[1] \/ tgt > value[2] THEN "InvalidRangeError"
    ELSE "ok"

\* _check_unit_specs: every argument that is None is replaced by the object's
\* current attribute; the result is the exception raised, or "ok".
check_unit_specs(crit, u, vu, cvu, ciu) ==
    LET unit_ == OrElse(u, unit)
        value_unit_ == OrElse(vu, value_unit)
        cvu_ == OrElse(cvu, convert_value_units)
        ciu_ == OrElse(ciu, convert_input_units)
    IN  IF Truthy(cvu_) /\ unit_ = None
            THEN "UnitNotSpecifiedError"
        ELSE IF Truthy(cvu_) /\ (~crit.has_unit \/ crit.unit = None)
            THEN "UnitNotSpecifiedError"
        ELSE IF Truthy(ciu_) /\ unit_ = None
            THEN "UnitNotSpecifiedError"
        ELSE "ok"

\* __init__, lines 99-107: the effective convert_value_units.
init_convert_value_units(crit, u, cvu) ==
    IF cvu # None THEN cvu
    ELSE IF u # None /\ crit.has_unit /\ crit.unit # None THEN PyTrue
    ELSE PyFalse

-----------------------------------------------------------------------------
(* CriterionTargetRange: the object *)

\* Before construction the instance has the class attributes only.
TRInit ==
    /\ phase = "new"
    /\ criterion \in Criteria
    /\ target = None
    /\ range = None
    /\ unit = None
    /\ value_unit = None
    /\ convert_value_units = None
    /\ convert_input_units = PyFalse
    /\ last = [op |-> "none", arg |-> None, out |-> Returned(None)]
    /\ reassigned = FALSE

\* __init__(criterion, target, range, unit, convert_value_units,
\*          convert_input_units, value_unit) with the default distance_func.
\* `self.target = t` finds the class attribute _range = None and cannot raise;
\* `self.range = r` may raise; _set_unit_specs(check_specs=True) may raise.
Construct(t, r, u, cvu, ciu, vu) ==
    /\ UNCHANGED notTR
    /\ phase = "new"
    /\ UNCHANGED reassigned
    /\ LET targetCheck == target_setter_check(range, t)
           rangeCheck == range_setter_check(t, r)
           cvuEff == init_convert_value_units(criterion, u, cvu)
           unitCheck == check_unit_specs(criterion, u, vu, cvuEff, ciu)
           args == <<t, r, u, cvu, ciu, vu>>
       IN  IF targetCheck # "ok"
             THEN /\ phase' = "failed"
                  /\ last' = [op |-> "init", arg |-> args, out |-> Raised(targetCheck)]
                  /\ UNCHANGED <<target, range, unit, value_unit,
                                 convert_value_units, convert_input_units>>
           ELSE IF rangeCheck # "ok"
             THEN /\ phase' = "failed"
                  /\ target' = Some(t)
                  /\ last' = [op |-> "init", arg |-> args, out |-> Raised(rangeCheck)]
                  /\ UNCHANGED <<range, unit, value_unit, convert_value_units,
                                 convert_input_units>>
           ELSE IF unitCheck # "ok"
             THEN /\ phase' = "failed"
                  /\ target' = Some(t)
                  /\ range' = r
                  /\ last' = [op |-> "init", arg |-> args, out |-> Raised(unitCheck)]
                  /\ UNCHANGED <<unit, value_unit, convert_value_units,
                                 convert_input_units>>
           ELSE   /\ phase' = "live"
                  /\ target' = Some(t)
                  /\ range' = r
                  /\ unit' = u
                  /\ value_unit' = vu
                  /\ convert_value_units' = cvuEff
                  /\ convert_input_units' = ciu
                  /\ last' = [op |-> "init", arg |-> args, out |-> Returned(None)]
    /\ UNCHANGED criterion

\* target.setter
SetTarget(v) ==
    /\ UNCHANGED notTR
    /\ phase = "live"
    /\ reassigned' = (reassigned \/ target_setter_check(range, v) = "ok")
    /\ LET chk == target_setter_check(range, v)
       IN  /\ target' = IF chk = "ok" THEN Some(v) ELSE target
           /\ last' = [op |-> "set_target", arg |-> Some(v),
                       out |-> IF chk = "ok" THEN Returned(None) ELSE Raised(chk)]
    /\ UNCHANGED <<phase, criterion, range, unit, value_unit,
                   convert_value_units, convert_input_units>>

\* range.setter
SetRange(r) ==
    /\ UNCHANGED notTR
    /\ phase = "live"
    /\ reassigned' = (reassigned \/ range_setter_check(target[1], r) = "ok")
    /\ LET chk == range_setter_check(target[1], r)
       IN  /\ range' = IF chk = "ok" THEN r ELSE range
           /\ last' = [op |-> "set_range", arg |-> Some(r),
                       out |-> IF chk = "ok" THEN Returned(None) ELSE Raised(chk)]
    /\ UNCHANGED <<phase, criterion, target, unit, value_unit,
                   convert_value_units, convert_input_units>>

\* unit.setter: _check_unit_specs(unit=value), then the assignment.
SetUnit(u) ==
    /\ UNCHANGED notTR
    /\ phase = "live"
    /\ UNCHANGED reassigned
    /\ LET chk == check_unit_specs(criterion, u, None, None, None)
       IN  /\ unit' = IF chk = "ok" THEN u ELSE unit
           /\ last' = [op |-> "set_unit", arg |-> Some(u),
                       out |-> IF chk = "ok" THEN Returned(None) ELSE Raised(chk)]
    /\ UNCHANGED <<phase, criterion, target, range, value_unit,
                   convert_value_units, convert_input_units>>

\* value_unit.setter
SetValueUnit(vu) ==
    /\ UNCHANGED notTR
    /\ phase = "live"
    /\ UNCHANGED reassigned
    /\ LET chk == check_unit_specs(criterion, None, vu, None, None)
       IN  /\ value_unit' = IF chk = "ok" THEN vu ELSE value_unit
           /\ last' = [op |-> "set_value_unit", arg |-> Some(vu),
                       out |-> IF chk = "ok" THEN Returned(None) ELSE Raised(chk)]
    /\ UNCHANGED <<phase, criterion, target, range, unit,
                   convert_value_units, convert_input_units>>

\* convert_value_units.setter
SetConvertValueUnits(b) ==
    /\ UNCHANGED notTR
    /\ phase = "live"
    /\ UNCHANGED reassigned
    /\ LET chk == check_unit_specs(criterion, None, None, b, None)
       IN  /\ convert_value_units' = IF chk = "ok" THEN b ELSE convert_value_units
           /\ last' = [op |-> "set_convert_value_units", arg |-> Some(b),
                       out |-> IF chk = "ok" THEN Returned(None) ELSE Raised(chk)]
    /\ UNCHANGED <<phase, criterion, target, range, unit, value_unit,
                   convert_input_units>>

\* convert_input_units.setter
SetConvertInputUnits(b) ==
    /\ UNCHANGED notTR
    /\ phase = "live"
    /\ UNCHANGED reassigned
    /\ LET chk == check_unit_specs(criterion, None, None, None, b)
       IN  /\ convert_input_units' = IF chk = "ok" THEN b ELSE convert_input_units
           /\ last' = [op |-> "set_convert_input_units", arg |-> Some(b),
                       out |-> IF chk = "ok" THEN Returned(None) ELSE Raised(chk)]
    /\ UNCHANGED <<phase, criterion, target, range, unit, value_unit,
                   convert_value_units>>

\* A call of in_range(value).
InRange(v) ==
    /\ UNCHANGED notTR
    /\ phase = "live"
    /\ UNCHANGED reassigned
    /\ last' = [op |-> "in_range", arg |-> Some(v), out |-> in_range(v)]
    /\ UNCHANGED <<phase, criterion, target, range, unit, value_unit,
                   convert_value_units, convert_input_units>>

\* A call of distance_func(value), distance_func being the default.
Distance(v) ==
    /\ UNCHANGED notTR
    /\ phase = "live"
    /\ UNCHANGED reassigned
    /\ last' = [op |-> "distance", arg |-> Some(v), out |-> default_distance_func(v)]
    /\ UNCHANGED <<phase, criterion, target, range, unit, value_unit,
                   convert_value_units, convert_input_units>>

\* No CriterionTargetRange is in use.
TRIdle ==
    /\ phase = "new"
    /\ criterion = [has_unit |-> FALSE, unit |-> None]
    /\ target = None
    /\ range = None
    /\ unit = None
    /\ value_unit = None
    /\ convert_value_units = None
    /\ convert_input_units = PyFalse
    /\ last = [op |-> "none", arg |-> None, out |-> Returned(None)]
    /\ reassigned = FALSE

-----------------------------------------------------------------------------
(* Fractions as series values *)

FracAdd(a, b) == Frac(a[1] * b[2] + b[1] * a[2], a[2] * b[2])
FracLE(a, b) == a[1] * b[2] <= b[1] * a[2]
FracDivInt(a, n) == Frac(a[1], a[2] * n)

-----------------------------------------------------------------------------
(* pandas Series with a MultiIndex: a function from keys to values, a key     *)
(* being a record with one field per index level.                            *)

IndexLevels == {"model", "scenario", "region", "variable", "unit", "year"}

\* dims.DIM: the names of the region and the time level.
DIM_REGION == "region"
DIM_TIME == "year"

EmptySeries == [k \in {} |-> Whole(0)]

\* The key k without the level lvl.
DropLevel(k, lvl) == [f \in (DOMAIN k) \ {lvl} |-> k[f]]

RECURSIVE SumOver(_, _)
SumOver(s, K) ==
    IF K = {} THEN Whole(0)
    ELSE LET k == CHOOSE x \in K : TRUE
         IN  FracAdd(s[k], SumOver(s, K \ {k}))

\* The SeriesGroupBy methods named by an aggregation specification, applied
\* to the group K (non-empty) of the series s.
AggFuncs == {"max", "min", "sum", "mean"}

ApplyAgg(func, s, K) ==
    CASE func = "max"  -> s[CHOOSE k \in K : \A j \in K : FracLE(s[j], s[k])]
      [] func = "min"  -> s[CHOOSE k \in K : \A j \in K : FracLE(s[k], s[j])]
      [] func = "sum"  -> SumOver(s, K)
      [] func = "mean" -> FracDivInt(SumOver(s, K), Cardinality(K))

\* s.groupby(s.index.names.difference([lvl])).agg(func)
GroupByAgg(s, lvl, func) ==
    LET groups == {DropLevel(k, lvl) : k \in DOMAIN s}
    IN  [g \in groups |->
            ApplyAgg(func, s, {k \in DOMAIN s : DropLevel(k, lvl) = g})]

-----------------------------------------------------------------------------
(* TimeseriesRefCriterion: the two aggregations *)

\* AggDimOrder
TIME_FIRST == "time_first"
REGION_FIRST == "region_first"
AggDimOrder == {TIME_FIRST, REGION_FIRST}

\* _aggregate_time
aggregate_time(s) == GroupByAgg(s, DIM_TIME, time_agg)

\* _aggregate_region
aggregate_region(s) == GroupByAgg(s, DIM_REGION, region_agg)

\* The faulty variant of aggregate_in_order that pays no attention to the
\* order asked for.
aggregate_in_order_IgnoresOrder(s, order) ==
    LET inner == aggregate_time(s)
    IN  [mid |-> inner, out |-> aggregate_region(inner)]

\* The body of aggregate_time_and_region for a criterion whose agg_dim_order
\* is `order`.
aggregate_in_order(s, order) ==
    IF order = REGION_FIRST
        THEN LET inner == aggregate_time(s)
             IN  [mid |-> inner, out |-> aggregate_region(inner)]
        ELSE LET inner == aggregate_region(s)
             IN  [mid |-> inner, out |-> aggregate_time(inner)]

\* aggregate_time_and_region: the argument of the outer call (the result of
\* the inner call) and the returned series.
aggregate_time_and_region(s) == aggregate_in_order(s, agg_dim_order)

\* The keys a comparison series may have: two regions and two years for one
\* model, one region and two years for a second one.
AggKeys ==
    {[model |-> m, scenario |-> "Scen1", region |-> r, variable |-> "Primary Energy",
      unit |-> "EJ/yr", year |-> y] :
        m \in {"ModelA"}, r \in {"Region1", "Region2"}, y \in {"2020", "2030"}}
    \cup
    {[model |-> m, scenario |-> "Scen1", region |-> r, variable |-> "Primary Energy",
      unit |-> "EJ/yr", year |-> y] :
        m \in {"ModelB"}, r \in {"Region1"}, y \in {"2020", "2030"}}

Cells == {Whole(v) : v \in 0 .. MaxCell}

\* The grid [[1, 9], [9, 1]] of one model: 1 and 9 in the first region, 9
\* and 1 in the second, for the two years.
Grid19 ==
    [k \in {j \in AggKeys : j.model = "ModelA"} |->
        IF (k.region = "Region1") = (k.year = "2020") THEN Whole(1) ELSE Whole(9)]

\* Every series over a subset of AggKeys, and the grid.
AggSeries == UNION {[K -> Cells] : K \in SUBSET AggKeys} \cup {Grid19}

\* A criterion constructed with region_agg, time_agg and agg_dim_order, and a
\* comparison series about to be aggregated.
AggInit ==
    /\ agg_dim_order \in AggDimOrder
    /\ region_agg \in AggFuncs
    /\ time_agg \in AggFuncs
    /\ aggIn \in AggSeries
    /\ aggMid = EmptySeries
    /\ aggOut = EmptySeries
    /\ aggPc = "ready"

\* No aggregation is in use.
AggIdle ==
    /\ agg_dim_order = REGION_FIRST
    /\ region_agg = "max"
    /\ time_agg = "max"
    /\ aggIn = EmptySeries
    /\ aggMid = EmptySeries
    /\ aggOut = EmptySeries
    /\ aggPc = "idle"

\* A call of aggregate_time_and_region(aggIn).
AggregateTimeAndRegion ==
    /\ UNCHANGED notAgg
    /\ aggPc = "ready"
    /\ LET r == aggregate_time_and_region(aggIn)
       IN  /\ aggMid' = r.mid
           /\ aggOut' = r.out
    /\ aggPc' = "done"
    /\ UNCHANGED <<agg_dim_order, region_agg, time_agg, aggIn>>

-----------------------------------------------------------------------------
(* pyam.IamDataFrame: its data is a series over the six index levels, no two  *)
(* rows sharing a key.  A list of rows under construction may hold a key      *)
(* twice: it is a set of [src, key, val], src telling the copies apart.       *)

\* NaN, as a series value.
NaN == None

HasDuplicates(rows) == \E a, b \in rows : a # b /\ a.key = b.key

\* pyam.IamDataFrame(series): rows with a NaN value are dropped, duplicate
\* rows are refused with a ValueError.
IamDataFrame(rows) ==
    LET kept == {r \in rows : r.val # NaN}
    IN  IF HasDuplicates(kept)
            THEN Raised("ValueError")
            ELSE Returned([k \in {r.key : r \in kept} |->
                              (CHOOSE r \in kept : r.key = k).val])

\* The distinct values of a dimension: df.model, df.variable, ...
DimValues(df, dim) == {k[dim] : k \in DOMAIN df}

\* df.unit_mapping[var]: the units the variable var has in df.  (pyam gives
\* a string for one unit and a list for several; the list is in the order
\* of the sorted rows, which is the order of the units in the datasets drawn
\* here, so two mappings are equal exactly when the sets are.)
UnitsOf(df, var) == {k.unit : k \in {j \in DOMAIN df : j.variable = var}}

\* The size of a unit, in TJ/yr.
UnitScale(u) ==
    CASE u = "EJ/yr" -> 1000 * 1000
      [] u = "PJ/yr" -> 1000
      [] u = "TJ/yr" -> 1

\* A value in unit `current` expressed in unit `to`.
ConvertValue(v, current, to) ==
    Frac(v[1] * UnitScale(current), v[2] * UnitScale(to))

\* df.convert_unit(current, to): the rows in unit `current` are relabelled
\* and rescaled, the other rows are kept.
ConvertUnit(df, current, to) ==
    {[src |-> <<current, k>>,
      key |-> IF k.unit = current THEN [k EXCEPT !.unit = to] ELSE k,
      val |-> IF k.unit = current THEN ConvertValue(df[k], current, to) ELSE df[k]] :
        k \in DOMAIN df}

\* The faulty variant of FilterVariable that always keeps the variables
\* listed, whatever `keep` says.
FilterVariable_KeepIgnored(df, vs, keep) ==
    [k \in {j \in DOMAIN df : j.variable \in vs} |-> df[k]]

\* df.filter(variable=vs) and df.filter(variable=vs, keep=False)
FilterVariable(df, vs, keep) ==
    [k \in {j \in DOMAIN df : (j.variable \in vs) = keep} |-> df[k]]

-----------------------------------------------------------------------------
(* pyam_helpers.make_consistent_units *)

\* differing_vars: the variables of df whose unit mapping differs from the
\* one in match_df; a variable absent from match_df never differs.
differing_vars(df, match_df) ==
    {var \in DimValues(df, "variable") :
        /\ var \in DimValues(match_df, "variable")
        /\ UnitsOf(df, var) # UnitsOf(match_df, var)}

\* make_consistent_units(df, match_df)
make_consistent_units(df, match_df) ==
    LET differing == differing_vars(df, match_df)
        matching_df == FilterVariable(df, differing, FALSE)
        matching_rows == {[src |-> <<"", k>>, key |-> k, val |-> matching_df[k]] :
                            k \in DOMAIN matching_df}
        \* one converted frame per differing variable and source unit
        converted(var, source_unit) ==
            ConvertUnit(FilterVariable(df, {var}, TRUE), source_unit,
                        CHOOSE u \in UnitsOf(match_df, var) : TRUE)
        converted_rows ==
            UNION {UNION {converted(var, su) : su \in UnitsOf(df, var)} :
                      var \in differing}
    IN  IF \E var \in differing : Cardinality(UnitsOf(match_df, var)) > 1
            THEN Raised("NotImplementedError")
            ELSE IamDataFrame(matching_rows \cup converted_rows)

\* The keys of the datasets given to make_consistent_units: one model,
\* scenario and region, two variables, three units, two years.
UnitKeys ==
    {[model |-> "ModelA", scenario |-> "Scen1", region |-> "World",
      variable |-> v, unit |-> u, year |-> y] :
        v \in {"Primary Energy", "Secondary Energy"},
        u \in {"EJ/yr", "PJ/yr", "TJ/yr"},
        y \in {"2020", "2030"}}

SmallSubsets(S) == {K \in SUBSET S : Cardinality(K) <= MaxRows}

\* pyam_series_comparison.wrapper(iamdf1, iamdf2) about to run.
UnInit ==
    /\ iamdf1 \in UNION {[K -> {Whole(1), Whole(2)}] : K \in SmallSubsets(UnitKeys)}
    /\ iamdf2 \in UNION {[K -> {Whole(1)}] : K \in SmallSubsets(UnitKeys)}
    /\ consistent = Returned(EmptySeries)
    /\ unPc = "ready"

\* No unit reconciliation is in use.
UnIdle ==
    /\ iamdf1 = EmptySeries
    /\ iamdf2 = EmptySeries
    /\ consistent = Returned(EmptySeries)
    /\ unPc = "idle"

\* wrapper, lines 422-426: iamdf1 = make_consistent_units(df=iamdf1,
\* match_df=iamdf2); an exception leaves the wrapper.
MatchUnits ==
    /\ UNCHANGED notUn
    /\ unPc = "ready"
    /\ consistent' = make_consistent_units(iamdf1, iamdf2)
    /\ unPc' = "done"
    /\ UNCHANGED <<iamdf1, iamdf2>>

-----------------------------------------------------------------------------
(* pyam operations used by the vetter *)

FracSub(a, b) == Frac(a[1] * b[2] - b[1] * a[2], a[2] * b[2])
FracAbs(a) == <<Abs(a[1]), a[2]>>

\* The rows of the frame df, as an element `tag` of a list of frames.
RowsOf(df, tag) ==
    {[src |-> <<tag, k>>, key |-> k, val |-> df[k]] : k \in DOMAIN df}

\* df.rename({dim: {old: new}}), for renamings that merge no two rows.
Rename(df, dim, old, new) ==
    LET to(k) == IF k[dim] = old THEN [k EXCEPT ![dim] = new] ELSE k
    IN  [j \in {to(k) : k \in DOMAIN df} |->
            df[CHOOSE k \in DOMAIN df : to(k) = j]]

\* pyam.concat(frames), frames a set of [tag, df]: a ValueError for an empty
\* list and for rows that occur twice.
Concat(frames) ==
    IF frames = {}
        THEN Raised("ValueError")
        ELSE IamDataFrame(UNION {RowsOf(f.df, f.tag) : f \in frames})

-----------------------------------------------------------------------------
(* iam_vetter_core: IamDataFrameVariableDiff and                             *)
(* IamDataFrameTimeseriesVetter._make_one_comparison                         *)

\* The dimensions of an IamDataFrame that can be broadcast, in the order of
\* data.dimensions; dims.DIM.UNIT is never broadcast.
DIM_UNIT == "unit"
Dimensions == <<"model", "scenario", "region", "variable", "unit", "year">>

\* The faulty variant of compare_func that subtracts with a fill value, so
\* that a key of only one of the frames gets a row.
compare_func_FillsMissing(d, t, abs) ==
    LET at(f, k) == IF k \in DOMAIN f THEN f[k] ELSE Whole(0)
        diff(k) == IF abs THEN FracAbs(FracSub(at(d, k), at(t, k)))
                          ELSE FracSub(at(d, k), at(t, k))
    IN  IamDataFrame({[src |-> k, key |-> k, val |-> diff(k)] :
                          k \in DOMAIN d \cup DOMAIN t})

\* IamDataFrameVariableDiff._compare_func: the difference of the two series,
\* aligned on the union of their keys with NaN where either has no value,
\* made into an IamDataFrame.
compare_func(d, t, abs) ==
    LET diff(k) ==
            IF k \in DOMAIN d /\ k \in DOMAIN t
                THEN IF abs THEN FracAbs(FracSub(d[k], t[k]))
                            ELSE FracSub(d[k], t[k])
                ELSE NaN
    IN  IamDataFrame({[src |-> k, key |-> k, val |-> diff(k)] :
                          k \in DOMAIN d \cup DOMAIN t})

\* IamDataFrameTimeseriesVariableComparison._call_compare_func: the target
\* is converted to the units of the data, then compared.
call_compare_func(d, t, abs) ==
    LET converted == make_consistent_units(t, d)
    IN  IF converted.tag # "ok" THEN converted
        ELSE compare_func(d, converted.val, abs)

\* IamDataFrameVariableDiff.__init__: the default suffix of variable names.
var_suffix(abs) == IF abs THEN "|Absolute Difference" ELSE "|Difference"

\* _make_one_comparison, lines 471-473
broadcast_dims(d, md) ==
    {i \in DOMAIN Dimensions : Dimensions[i] \notin md /\ Dimensions[i] # DIM_UNIT}

\* The faulty variant of broadcast_check that takes the first value of a
\* dimension in which the target has several.
broadcast_check_TakesFirst(d, t, md) ==
    IF \E i \in broadcast_dims(d, md) : DimValues(t, Dimensions[i]) = {}
        THEN Raised("IndexError")
        ELSE Returned(None)

\* _make_one_comparison, lines 474-482: the check of the target's values in
\* the broadcast dimensions, in the order of the dimensions.
broadcast_check(d, t, md) ==
    LET bd == broadcast_dims(d, md)
        bad == {i \in bd : Cardinality(DimValues(t, Dimensions[i])) # 1}
        first == CHOOSE i \in bad : \A j \in bad : i <= j
    IN  IF bad = {} THEN Returned(None)
        ELSE IF Cardinality(DimValues(t, Dimensions[first])) > 1
            THEN Raised("ValueError")
            ELSE Raised("IndexError")

\* _make_one_comparison, lines 483-488: one renamed copy of the target for
\* each broadcast dimension and each value the data has in that dimension.
broadcast_target(d, t, md) ==
    Concat({[tag |-> <<Dimensions[i], v>>,
             df  |-> Rename(t, Dimensions[i],
                            CHOOSE x \in DimValues(t, Dimensions[i]) : TRUE, v)] :
               <<i, v>> \in {p \in broadcast_dims(d, md) \X
                                   UNION {DimValues(d, Dimensions[i]) :
                                             i \in DOMAIN Dimensions} :
                               p[2] \in DimValues(d, Dimensions[p[1]])}})

\* A rename that leaves the prefix out, the faulty variant of rename_result
\* below.
rename_result_SuffixOnly(c, prefix, suffix) ==
    [j \in {[k EXCEPT !.variable = k.variable \o suffix] : k \in DOMAIN c} |->
        c[CHOOSE k \in DOMAIN c :
              [k EXCEPT !.variable = k.variable \o suffix] = j]]

\* _make_one_comparison, lines 493-507: every variable of the comparison
\* result gets the prefix and the suffix of the comparison.
rename_result(c, prefix, suffix) ==
    [j \in {[k EXCEPT !.variable = prefix \o k.variable \o suffix] :
                k \in DOMAIN c} |->
        c[CHOOSE k \in DOMAIN c :
              [k EXCEPT !.variable = prefix \o k.variable \o suffix] = j]]

CmpDataKeys ==
    {[model |-> m, scenario |-> "Scen1", region |-> "World",
      variable |-> v, unit |-> "EJ/yr", year |-> "2020"] :
        m \in {"ModelA", "ModelB"},
        v \in {"Primary Energy", "Secondary Energy"}}

CmpTargetKeys ==
    {[model |-> m, scenario |-> sc, region |-> "World",
      variable |-> v, unit |-> u, year |-> "2020"] :
        m \in {"Target Model", "ModelA"},
        sc \in {"Target Scenario", "Scen1"},
        v \in {"Primary Energy", "Secondary Energy"},
        u \in {"EJ/yr", "PJ/yr"}}

CmpSubsets(S) == {K \in SUBSET S : Cardinality(K) <= MaxCmpRows}

\* The match dimensions of a comparison: the default and the one that
\* matches on the scenario too; __post_init__ has added the time dimension.
MatchDimsChoices ==
    {{"variable", "region", DIM_TIME},
     {"scenario", "variable", "region", DIM_TIME}}

\* A comparator bound to a target, and a dataset to vet.
CmpInit ==
    /\ data \in UNION {[K -> {Whole(0), Whole(2)}] : K \in CmpSubsets(CmpDataKeys)}
    /\ reference \in UNION {[K -> {Whole(1)}] : K \in CmpSubsets(CmpTargetKeys)}
    /\ match_dims \in MatchDimsChoices
    /\ use_abs_diff \in BOOLEAN
    /\ target_broadcasted = Returned(EmptySeries)
    /\ compared = Returned(EmptySeries)
    /\ result = Returned(EmptySeries)
    /\ cmpPc = "ready"

\* No comparison is in use.
CmpIdle ==
    /\ data = EmptySeries
    /\ reference = EmptySeries
    /\ match_dims = {}
    /\ use_abs_diff = FALSE
    /\ target_broadcasted = Returned(EmptySeries)
    /\ compared = Returned(EmptySeries)
    /\ result = Returned(EmptySeries)
    /\ cmpPc = "idle"

\* IamDataFrameTimeseriesVetter._make_one_comparison(data, target, comparison)
\* with an IamDataFrameVariableDiff comparison.
MakeOneComparison ==
    /\ UNCHANGED notCmp
    /\ cmpPc = "ready"
    /\ LET chk == broadcast_check(data, reference, match_dims)
           bc  == IF chk.tag # "ok" THEN chk
                  ELSE broadcast_target(data, reference, match_dims)
           cmp == IF bc.tag # "ok" THEN bc
                  ELSE call_compare_func(data, bc.val, use_abs_diff)
       IN  /\ target_broadcasted' = bc
           /\ compared' = cmp
           /\ result' = IF cmp.tag # "ok" THEN cmp
                        ELSE Returned(rename_result(cmp.val, "", var_suffix(use_abs_diff)))
    /\ cmpPc' = "checked"
    /\ UNCHANGED <<data, reference, match_dims, use_abs_diff>>

-----------------------------------------------------------------------------
(* The ratio comparison.  get_ratio_comparison is imported by                *)
(* iamcompact_harmonization_targets from a module that is not part of the    *)
(* sources; it is modelled from its specification (spec.md, 4.1): subject /  *)
(* reference, with a sentinel where the reference is zero.                    *)

\* numpy.inf, as a series value.
PosInf == <<1, 0>>

\* What element-wise float division gives for 0/0, made explicit as the
\* faulty variant of ratio_value below.
ratio_value_RawDivision(sv, rv, dbz, zbz) ==
    IF rv[1] # 0 THEN Frac(sv[1] * rv[2], sv[2] * rv[1])
    ELSE IF sv[1] # 0 THEN PosInf
    ELSE NaN

\* The ratio of one subject value to one reference value.
ratio_value(sv, rv, dbz, zbz) ==
    IF rv[1] # 0 THEN Frac(sv[1] * rv[2], sv[2] * rv[1])
    ELSE IF sv[1] # 0 THEN dbz
    ELSE zbz

\* The function returned by get_ratio_comparison(div_by_zero_value,
\* zero_by_zero_value), on two series: a value for every key both have.
ratio_comparison(s, r, dbz, zbz) ==
    [k \in DOMAIN s \cap DOMAIN r |-> ratio_value(s[k], r[k], dbz, zbz)]

\* IamCompactHarmonizationRatioCriterion.__init__: the sentinels it passes.
HarmonizationDivByZero == PosInf
HarmonizationZeroByZero == Whole(1)

RatioKeys ==
    {[model |-> "ModelA", scenario |-> "Scen1", region |-> "World",
      variable |-> "Primary Energy", unit |-> "EJ/yr", year |-> y] :
        y \in {"2020", "2030", "2040"}}

RatioVals == {Whole(v) : v \in 0 .. MaxRatioVal}

\* The sentinels a caller may supply.
Sentinels == {PosInf, Whole(0), Whole(1)}

RatioInit ==
    /\ subject \in [RatioKeys -> RatioVals]
    /\ ref \in [RatioKeys -> RatioVals]
    /\ div_by_zero_value \in Sentinels
    /\ zero_by_zero_value \in Sentinels
    /\ ratio = EmptySeries
    /\ ratioPc = "ready"

\* No ratio comparison is in use.
RatioIdle ==
    /\ subject = EmptySeries
    /\ ref = EmptySeries
    /\ div_by_zero_value = HarmonizationDivByZero
    /\ zero_by_zero_value = HarmonizationZeroByZero
    /\ ratio = EmptySeries
    /\ ratioPc = "idle"

\* One call of the function returned by get_ratio_comparison.
RatioCompare ==
    /\ UNCHANGED notRatio
    /\ ratioPc = "ready"
    /\ ratio' = ratio_comparison(subject, ref, div_by_zero_value, zero_by_zero_value)
    /\ ratioPc' = "done"
    /\ UNCHANGED <<subject, ref, div_by_zero_value, zero_by_zero_value>>

-----------------------------------------------------------------------------
(* timeseries_criteria_core: TimeseriesRefCriterion.compare, for an          *)
(* IamCompactHarmonizationRatioCriterion.  pyam_helpers.broadcast_dims is    *)
(* called by compare but is not part of the sources; it is modelled from     *)
(* its specification (spec.md, 4.2, steps 1 and 2).                          *)

\* TimeseriesRefCriterion.__init__: the default of broadcast_dims.
CriterionBroadcastDims == {"model", "scenario"}

\* The key k with the broadcast dimensions set as in the key c.
Broadcast(k, c, dims) == [f \in DOMAIN k |-> IF f \in dims THEN c[f] ELSE k[f]]

\* pyam_helpers.broadcast_dims(reference, iamdf, dims): an error when the
\* reference has more than one value in a broadcast dimension, else the
\* reference repeated for every combination of values that iamdf has in the
\* broadcast dimensions.
pyam_helpers_broadcast_dims(r, d, dims) ==
    IF \E dim \in dims : Cardinality(DimValues(r, dim)) > 1
        THEN Raised("ValueError")
        ELSE Returned(
            [j \in {Broadcast(k, c, dims) : k \in DOMAIN r, c \in DOMAIN d} |->
                r[CHOOSE k \in DOMAIN r : \E c \in DOMAIN d : Broadcast(k, c, dims) = j]])

\* pyam_series_comparison(...).wrapper(iamdf1, iamdf2) around the ratio
\* comparison of the harmonisation criterion, called by compare as
\* comparison_function(ref, iamdf).
comparison_function(r, d) ==
    LET converted == make_consistent_units(r, d)
    IN  IF converted.tag # "ok" THEN converted
        ELSE Returned(ratio_comparison(d, converted.val, HarmonizationDivByZero,
                                       HarmonizationZeroByZero))

\* TimeseriesRefCriterion.compare(iamdf)
CriterionCompare ==
    /\ UNCHANGED notCmp
    /\ cmpPc = "ready"
    /\ LET bc  == pyam_helpers_broadcast_dims(reference, data, CriterionBroadcastDims)
           cmp == IF bc.tag # "ok" THEN bc ELSE comparison_function(bc.val, data)
       IN  /\ target_broadcasted' = bc
           /\ compared' = cmp
           /\ result' = cmp
    /\ cmpPc' = "compared"
    /\ UNCHANGED <<data, reference, match_dims, use_abs_diff>>

-----------------------------------------------------------------------------
(* timeseries_criteria_core: AggFuncTuple and the normalisation of the       *)
(* region_agg and time_agg arguments of TimeseriesRefCriterion.__init__      *)

\* Python values that can be given as an aggregation function: a string, a
\* callable (named), or something that is neither.
StrFunc(name) == <<"str", name>>
CallableFunc(name) == <<"callable", name>>
OtherFunc == <<"int", "5">>

\* getattr(SeriesGroupBy, name): the methods are AggFuncs, ngroups is a
\* property (not callable), anything else is no attribute.
GroupByProperties == {"ngroups"}
FuncValues ==
    {StrFunc(n) : n \in {"max", "mean", "ngroups", "no_such_method"}}
    \cup {CallableFunc(n) : n \in {"numpy.max", "lambda"}}
    \cup {OtherFunc}

\* Positional-argument containers (a tuple or a list) and keyword dicts.
Tup(xs) == <<"tuple", xs>>
Lst(xs) == <<"list", xs>>
ArgsValues == {Tup(<<>>), Tup(<<1>>), Lst(<<>>)}
KwargsValues == {{}, {<<"skipna", TRUE>>}}

\* The faulty variant of AggFuncTuple_init whose default for args is an
\* empty list.
AggFuncTuple_init_ListDefault(items) ==
    LET func == items[1]
        args == IF Len(items) >= 2 THEN items[2] ELSE Lst(<<>>)
        kwargs == IF Len(items) >= 3 THEN items[3] ELSE {}
    IN  IF Len(items) > 3 THEN Raised("TypeError")
        ELSE IF func[1] = "str"
            THEN IF func[2] \in AggFuncs
                     THEN Returned([func |-> func, args |-> args, kwargs |-> kwargs])
                 ELSE IF func[2] \in GroupByProperties THEN Raised("TypeError")
                 ELSE Raised("AttributeError")
        ELSE IF func[1] = "callable"
            THEN Returned([func |-> func, args |-> args, kwargs |-> kwargs])
        ELSE Raised("TypeError")

\* AggFuncTuple(*items): the dataclass __init__ with the defaults args=()
\* and kwargs={}, then __post_init__.
AggFuncTuple_init(items) ==
    LET func == items[1]
        args == IF Len(items) >= 2 THEN items[2] ELSE Tup(<<>>)
        kwargs == IF Len(items) >= 3 THEN items[3] ELSE {}
    IN  IF Len(items) > 3 THEN Raised("TypeError")
        ELSE IF func[1] = "str"
            THEN IF func[2] \in AggFuncs
                     THEN Returned([func |-> func, args |-> args, kwargs |-> kwargs])
                 ELSE IF func[2] \in GroupByProperties THEN Raised("TypeError")
                 ELSE Raised("AttributeError")
        ELSE IF func[1] = "callable"
            THEN Returned([func |-> func, args |-> args, kwargs |-> kwargs])
        ELSE Raised("TypeError")

\* The forms of an aggregation argument: a bare value, a tuple of one to
\* four items, or an AggFuncTuple built before.
BareArg(f) == [form |-> "bare", items |-> <<f>>]
TupleArg(items) == [form |-> "tuple", items |-> items]
AggFuncTupleArg(items) == [form |-> "AggFuncTuple", items |-> items]

AggFuncArgs ==
    {BareArg(f) : f \in FuncValues}
    \cup {TupleArg(<<f>>) : f \in FuncValues}
    \cup {TupleArg(<<f, a>>) : f \in FuncValues, a \in ArgsValues}
    \cup {TupleArg(<<f, a, k>>) : f \in FuncValues, a \in ArgsValues, k \in KwargsValues}
    \cup {TupleArg(<<f, Tup(<<>>), {}, {}>>) : f \in {StrFunc("max")}}
    \cup {AggFuncTupleArg(<<f, a, k>>) :
            f \in {g \in FuncValues : AggFuncTuple_init(<<g>>).tag = "ok"},
            a \in ArgsValues, k \in KwargsValues}

\* TimeseriesRefCriterion._make_agg_func_tuple
make_agg_func_tuple(agg_func) ==
    IF agg_func.form = "AggFuncTuple"
        THEN Returned([func |-> agg_func.items[1], args |-> agg_func.items[2],
                       kwargs |-> agg_func.items[3]])
    ELSE IF agg_func.form = "bare" /\ agg_func.items[1][1] = "str"
        THEN AggFuncTuple_init(agg_func.items)
    ELSE IF agg_func.form = "tuple"
        THEN AggFuncTuple_init(agg_func.items)
    ELSE IF agg_func.form = "bare" /\ agg_func.items[1][1] = "callable"
        THEN AggFuncTuple_init(agg_func.items)
    ELSE Raised("TypeError")

NormInit ==
    /\ region_agg_arg \in AggFuncArgs
    /\ time_agg_arg \in AggFuncArgs
    /\ crit_region_agg = Returned(None)
    /\ crit_time_agg = Returned(None)
    /\ normPc = "ready"

\* No criterion is being constructed.
NormIdle ==
    /\ region_agg_arg = BareArg(StrFunc("max"))
    /\ time_agg_arg = BareArg(StrFunc("max"))
    /\ crit_region_agg = Returned(None)
    /\ crit_time_agg = Returned(None)
    /\ normPc = "idle"

\* TimeseriesRefCriterion.__init__, lines 267-268: self._time_agg is set
\* first; an exception there leaves self._region_agg unset.
NormaliseAggArgs ==
    /\ UNCHANGED notNorm
    /\ normPc = "ready"
    /\ crit_time_agg' = make_agg_func_tuple(time_agg_arg)
    /\ crit_region_agg' = IF make_agg_func_tuple(time_agg_arg).tag = "ok"
                              THEN make_agg_func_tuple(region_agg_arg)
                              ELSE Returned(None)
    /\ normPc' = "done"
    /\ UNCHANGED <<region_agg_arg, time_agg_arg>>

-----------------------------------------------------------------------------
(* A target range with a RelativeRange.  RelativeRange is imported from      *)
(* target_classes by ar6_vetting_targets and by                              *)
(* iamcompact_harmonization_targets, but the target_classes module of the    *)
(* sources does not define it; it is modelled from its specification         *)
(* (spec.md, 3, Target Range): the range is stored as factors of the target  *)
(* and the absolute bounds are recomputed when the target changes.           *)

FracMulInt(a, n) == Frac(a[1] * n, a[2])

\* RelativeRange(lower, upper)
RelativeRange(lower, upper) == [lower |-> lower, upper |-> upper]

\* The factors used: 1/2, 1, 3/2 and 2.
RelFactors == {Frac(1, 2), Whole(1), Frac(3, 2), Whole(2)}
RelTargets == (0 - MaxRelTarget) .. MaxRelTarget

\* The faulty variant of absolute_range that is computed once, from the
\* target 1, and so does not follow the target.
absolute_range_Fixed(rr, tgt) == <<rr.lower, rr.upper>>

\* The absolute bounds of the relative range rr for the target tgt.
absolute_range(rr, tgt) == <<FracMulInt(rr.lower, tgt), FracMulInt(rr.upper, tgt)>>

\* The invariant of a target range, checked on the bounds for the target:
\* lower <= upper and lower <= target <= upper, else the invalid-range error.
relative_range_check(rr, tgt) ==
    LET bounds == absolute_range(rr, tgt)
    IN  IF /\ FracLE(bounds[1], bounds[2])
           /\ FracLE(bounds[1], Whole(tgt))
           /\ FracLE(Whole(tgt), bounds[2])
            THEN "ok"
            ELSE "InvalidRangeError"

RelInit ==
    /\ relPhase = "new"
    /\ relTarget = None
    /\ relFactors = None
    /\ relRange = None
    /\ relLast = [op |-> "none", arg |-> None, out |-> Returned(None)]

\* No relative target range is in use.
RelIdle ==
    /\ relPhase = "idle"
    /\ relTarget = None
    /\ relFactors = None
    /\ relRange = None
    /\ relLast = [op |-> "none", arg |-> None, out |-> Returned(None)]

\* CriterionTargetRange(criterion, target=t, range=RelativeRange(fl, fu))
RelConstruct(t, fl, fu) ==
    /\ UNCHANGED notRel
    /\ relPhase = "new"
    /\ LET rr == RelativeRange(fl, fu)
           chk == relative_range_check(rr, t)
       IN  IF chk = "ok"
             THEN /\ relPhase' = "live"
                  /\ relTarget' = Some(t)
                  /\ relFactors' = Some(rr)
                  /\ relRange' = absolute_range(rr, t)
                  /\ relLast' = [op |-> "init", arg |-> Some(t), out |-> Returned(None)]
             ELSE /\ relPhase' = "failed"
                  /\ relLast' = [op |-> "init", arg |-> Some(t), out |-> Raised(chk)]
                  /\ UNCHANGED <<relTarget, relFactors, relRange>>

\* An assignment to target: the bounds are recomputed from the new target;
\* a rejected assignment changes nothing.
RelSetTarget(t) ==
    /\ UNCHANGED notRel
    /\ relPhase = "live"
    /\ LET chk == relative_range_check(relFactors[1], t)
       IN  IF chk = "ok"
             THEN /\ relTarget' = Some(t)
                  /\ relRange' = absolute_range(relFactors[1], t)
                  /\ relLast' = [op |-> "set_target", arg |-> Some(t),
                                 out |-> Returned(None)]
             ELSE /\ relLast' = [op |-> "set_target", arg |-> Some(t),
                                 out |-> Raised(chk)]
                  /\ UNCHANGED <<relTarget, relRange>>
    /\ UNCHANGED <<relPhase, relFactors>>

-----------------------------------------------------------------------------
(* timeseries_criteria_core: invocations of TimeseriesRefCriterion.get_values *)
(* on one criterion, each advancing by the steps of the code: compare        *)
(* (broadcast, then the comparison function), then the aggregation.          *)

\* The invocations that may be in progress at once.
Invocations == {1, 2}

\* An invocation that is not in progress.
NoCall ==
    [pc |-> "idle", file |-> EmptySeries, bref |-> Returned(EmptySeries),
     cmp |-> Returned(EmptySeries), out |-> Returned(EmptySeries),
     prevFile |-> None, prevOut |-> Returned(EmptySeries)]

\* The subject datasets: every dataset of Primary Energy rows of CmpDataKeys.
CallSubjects ==
    UNION {[K -> {Whole(2)}] :
              K \in SUBSET {k \in CmpDataKeys : k.variable = "Primary Energy"}}

\* The references a criterion is bound to: one row in the unit of the
\* subjects, one row in another unit, and rows of two models.
CallReferences ==
    {[k \in {j \in CmpTargetKeys : /\ j.scenario = "Target Scenario"
                                   /\ j.variable = "Primary Energy"
                                   /\ j.model \in ms /\ j.unit = u} |-> Whole(1)] :
        ms \in {{"Target Model"}, {"Target Model", "ModelA"}},
        u \in {"EJ/yr", "PJ/yr"}}

\* The faulty variant of self_after_step for a step that changes the
\* aggregation order of the criterion.
self_after_step_FlipsOrder(cfg) ==
    <<cfg[1], IF cfg[2] = REGION_FIRST THEN TIME_FIRST ELSE REGION_FIRST,
      cfg[3], cfg[4]>>

\* The configuration of the criterion after a step of compare or
\* get_values: the code assigns to no attribute of self.
self_after_step(cfg) == cfg

\* The faulty variant of locals in which a step reads the locals last
\* written by the other invocation.
locals_Shared(i) == calls[3 - i]

\* The locals of invocation i that a step reads.
locals(i) == calls[i]

\* get_values(file) run alone on the criterion: compare, then the
\* aggregation over time and region.
get_values(file) ==
    LET bref == pyam_helpers_broadcast_dims(reference, file, CriterionBroadcastDims)
        cmp  == IF bref.tag # "ok" THEN bref ELSE comparison_function(bref.val, file)
    IN  IF cmp.tag # "ok" THEN cmp
        ELSE Returned(aggregate_time_and_region(cmp.val).out)

\* The effect of a step on the criterion.
ConfigKept ==
    LET cfg == self_after_step(critConfig)
    IN  /\ reference' = cfg[1]
        /\ agg_dim_order' = cfg[2]
        /\ region_agg' = cfg[3]
        /\ time_agg' = cfg[4]

\* A criterion and no invocation in progress.
CallsInit ==
    /\ reference \in CallReferences
    /\ agg_dim_order \in AggDimOrder
    /\ region_agg \in {"max"}
    /\ time_agg \in {"max", "mean"}
    /\ calls = [i \in Invocations |-> NoCall]

\* No criterion is being invoked.
CallsIdle == calls = [i \in Invocations |-> NoCall]

\* get_values(file) is entered by invocation i.
CallGetValues(i, file) ==
    /\ UNCHANGED notCalls
    /\ calls[i].pc = "idle"
    /\ calls' = [calls EXCEPT ![i].pc = "entered", ![i].file = file]
    /\ ConfigKept

\* compare, line 364: ref = pyam_helpers.broadcast_dims(self.reference,
\* iamdf, self.broadcast_dims)
StepBroadcast(i) ==
    /\ UNCHANGED notCalls
    /\ calls[i].pc = "entered"
    /\ LET r == pyam_helpers_broadcast_dims(reference, locals(i).file,
                                            CriterionBroadcastDims)
       IN  calls' = [calls EXCEPT ![i].bref = r,
                                  ![i].out = IF r.tag = "ok" THEN @ ELSE r,
                                  ![i].pc = IF r.tag = "ok" THEN "broadcast" ELSE "done"]
    /\ ConfigKept

\* compare, line 366: return self.comparison_function(ref, iamdf)
StepCompare(i) ==
    /\ UNCHANGED notCalls
    /\ calls[i].pc = "broadcast"
    /\ LET c == comparison_function(locals(i).bref.val, locals(i).file)
       IN  calls' = [calls EXCEPT ![i].cmp = c,
                                  ![i].out = IF c.tag = "ok" THEN @ ELSE c,
                                  ![i].pc = IF c.tag = "ok" THEN "compared" ELSE "done"]
    /\ ConfigKept

\* get_values, line 374: self.aggregate_time_and_region(...)
StepAggregate(i) ==
    /\ UNCHANGED notCalls
    /\ calls[i].pc = "compared"
    /\ calls' = [calls EXCEPT
                    ![i].out = Returned(aggregate_time_and_region(locals(i).cmp.val).out),
                    ![i].pc = "done"]
    /\ ConfigKept

\* The invocation returns (or its exception leaves get_values); what it
\* was given and what it gave are remembered for the next invocation.
ReturnFromCall(i) ==
    /\ UNCHANGED notCalls
    /\ calls[i].pc = "done"
    /\ calls' = [calls EXCEPT ![i] = [NoCall EXCEPT !.prevFile = Some(calls[i].file),
                                                    !.prevOut = calls[i].out]]
    /\ ConfigKept

-----------------------------------------------------------------------------
(* IamDataFrameTimeseriesVetter.check: the filter, the comparisons in the    *)
(* order of self.comparisons, the concatenation of their results and the     *)
(* status.                                                                    *)

\* IamDataFrameVariableDiff.__init__: var_suffix None stands for the default,
\* which depends on use_abs_diff; prefix and suffix are for the variable
\* dimension; __post_init__ has added the time dimension to match_dims.
\* args keeps the var_prefix and var_suffix arguments as they were given.
IamDataFrameVariableDiff(md, abs, prefix, suffix) ==
    [args         |-> <<prefix, suffix>>,
     match_dims   |-> md,
     use_abs_diff |-> abs,
     dim_prefix   |-> prefix,
     dim_suffix   |-> IF suffix = None THEN var_suffix(abs) ELSE suffix[1]]

\* IamDataFrameTimeseriesVetter._make_one_comparison(data, target, comparison)
make_one_comparison(d, t, comparison) ==
    LET chk == broadcast_check(d, t, comparison.match_dims)
        bc  == IF chk.tag # "ok" THEN chk
               ELSE broadcast_target(d, t, comparison.match_dims)
        cmp == IF bc.tag # "ok" THEN bc
               ELSE call_compare_func(d, bc.val, comparison.use_abs_diff)
    IN  IF cmp.tag # "ok" THEN cmp
        ELSE Returned(rename_result(cmp.val, comparison.dim_prefix,
                                    comparison.dim_suffix))

\* The rows of a dataset whose model is (keep) or is not (not keep) in ms:
\* IamDataFrame.filter(model=ms, keep=keep).
FilterModel(df, ms, keep) ==
    [k \in {j \in DOMAIN df : (j.model \in ms) = keep} |-> df[k]]

\* df.model[0]: the first of the sorted model names of a dataset.
FirstModel(df) ==
    IF "ModelA" \in DimValues(df, "model") THEN "ModelA"
    ELSE IF "ModelB" \in DimValues(df, "model") THEN "ModelB"
    ELSE "ModelC"

\* The filters given to __init__: the default (identity), a Mapping
\* {'model': 'ModelA'}, and the callable
\* lambda df: df.filter(model=df.model[0], keep=False).
Filters == {"identity", "mapping", "callable"}

\* self.filter(data), as __init__ has set it up.
apply_filter(f, df) ==
    IF f = "identity" THEN Returned(df)
    ELSE IF f = "mapping" THEN Returned(FilterModel(df, {"ModelA"}, TRUE))
    ELSE IF DOMAIN df = {} THEN Raised("IndexError")
    ELSE Returned(FilterModel(df, {FirstModel(df)}, FALSE))

\* IamDataFrameTimeseriesVetter._do_comparisons(data, target): the filter is
\* applied to the data it is given, then the comparisons are made in order
\* and their results concatenated.
do_comparisons(f, cs, d, t) ==
    LET fd == apply_filter(f, d)
        one(i) == make_one_comparison(fd.val, t, cs[i])
        failed == {i \in DOMAIN cs : one(i).tag # "ok"}
        first == CHOOSE i \in failed : \A j \in failed : i <= j
    IN  IF fd.tag # "ok" THEN fd
        ELSE IF failed # {} THEN one(first)
        ELSE Concat({[tag |-> i, df |-> one(i).val] : i \in DOMAIN cs})

\* The status_mapping given to __init__: PASS when no difference is left.
status_mapping(measure) ==
    IF \A k \in DOMAIN measure : measure[k] = Whole(0) THEN "PASS" ELSE "FAIL"

\* IamDataFrameTargetVetter.check(data): TargetCheckVetter.check on the
\* filtered data, with _do_comparisons as compute_measure.
check(f, cs, d, t) ==
    LET value == apply_filter(f, d)
        measure == do_comparisons(f, cs, value.val, t)
    IN  IF value.tag # "ok" THEN value
        ELSE IF measure.tag # "ok" THEN measure
        ELSE Returned([value        |-> value.val,
                       target_value |-> t,
                       measure      |-> measure.val,
                       status       |-> status_mapping(measure.val)])

\* The match dimensions of the tests: all but model and unit.
TestMatchDims == {"scenario", "region", "variable", DIM_TIME}

\* The comparison lists a vetter is built with: one difference with the
\* default names, with the absolute difference, with empty prefix and
\* suffix, with a prefix only, with the default match dimensions; two
\* different comparisons; the same comparison twice; none.
ComparisonLists ==
    {<<IamDataFrameVariableDiff(TestMatchDims, FALSE, "", None)>>,
     <<IamDataFrameVariableDiff(TestMatchDims, TRUE, "", None)>>,
     <<IamDataFrameVariableDiff(TestMatchDims, FALSE, "", <<"">>)>>,
     <<IamDataFrameVariableDiff(TestMatchDims, FALSE, "Vetting|", <<"">>)>>,
     <<IamDataFrameVariableDiff({"variable", "region", DIM_TIME}, FALSE,
                                "Vetting|", None)>>,
     <<IamDataFrameVariableDiff(TestMatchDims, FALSE, "", None),
       IamDataFrameVariableDiff(TestMatchDims, TRUE, "", None)>>,
     <<IamDataFrameVariableDiff(TestMatchDims, FALSE, "", None),
       IamDataFrameVariableDiff(TestMatchDims, FALSE, "", None)>>,
     <<>>}

\* The datasets given to check: rows of up to three models.
VetDataKeys ==
    {[model |-> m, scenario |-> "Scen1", region |-> "World",
      variable |-> v, unit |-> "EJ/yr", year |-> "2020"] :
        m \in {"ModelA", "ModelB", "ModelC"},
        v \in {"Primary Energy", "Secondary Energy"}}

\* The targets of a vetter: rows of one model and one scenario.
VetTargetKeys ==
    {[model |-> "Target Model", scenario |-> "Scen1", region |-> "World",
      variable |-> v, unit |-> u, year |-> "2020"] :
        v \in {"Primary Energy", "Secondary Energy"},
        u \in {"EJ/yr", "PJ/yr"}}

\* The outcome slot before check has run.
NotChecked == Returned(None)

\* A vetter, and a dataset to check.
VetInit ==
    /\ vetData \in UNION {[K -> {Whole(0), Whole(2)}] :
                            K \in {J \in SUBSET VetDataKeys :
                                      Cardinality(J) <= MaxVetRows}}
    /\ vetTarget \in UNION {[K -> {Whole(2)}] : K \in CmpSubsets(VetTargetKeys)}
    /\ vetFilter \in Filters
    /\ comparisons \in ComparisonLists
    /\ checked = NotChecked
    /\ vetPc = "ready"

\* No vetter is in use.
VetIdle ==
    /\ vetData = EmptySeries
    /\ vetTarget = EmptySeries
    /\ vetFilter = "identity"
    /\ comparisons = <<>>
    /\ checked = NotChecked
    /\ vetPc = "idle"

\* vetter.check(data)
Check ==
    /\ UNCHANGED notVet
    /\ vetPc = "ready"
    /\ checked' = check(vetFilter, comparisons, vetData, vetTarget)
    /\ vetPc' = "done"
    /\ UNCHANGED <<vetData, vetTarget, vetFilter, comparisons>>

-----------------------------------------------------------------------------
(* IamDataFrameTimeseriesVariableComparison.log_variable_mismatches: the     *)
(* wrapper reports the variables that only one of data and target has.       *)

\* The variable names that data and target are made of.
LogVariables == {"Primary Energy", "Secondary Energy", "Final Energy"}

\* logger.warning(...) and logger.info(...): one record per call.
LogRecord(level, names) == [level |-> level, names |-> names]

\* _decorated, lines 605-618: what the wrapper logs before it calls the
\* comparison function.
log_mismatches(data_vars, target_vars, lg) ==
    LET missing_in_target == data_vars \ target_vars
        missing_in_data == target_vars \ data_vars
    IN  IF lg = None THEN <<>>
        ELSE (IF missing_in_target # {}
                  THEN <<LogRecord("WARNING", missing_in_target)>> ELSE <<>>)
             \o (IF missing_in_data # {}
                  THEN <<LogRecord("INFO", missing_in_data)>> ELSE <<>>)

\* A wrapped comparison function about to be called.
LogInit ==
    /\ logData \in SUBSET LogVariables
    /\ logTarget \in SUBSET LogVariables
    /\ logger \in {None, Some("logger")}
    /\ logged = <<>>
    /\ logPc = "ready"

\* No wrapped comparison function is in use.
LogIdle ==
    /\ logData = {}
    /\ logTarget = {}
    /\ logger = None
    /\ logged = <<>>
    /\ logPc = "idle"

\* _decorated(data, target, meta, logger)
CallDecorated ==
    /\ UNCHANGED notLog
    /\ logPc = "ready"
    /\ logged' = log_mismatches(logData, logTarget, logger)
    /\ logPc' = "done"
    /\ UNCHANGED <<logData, logTarget, logger>>

-----------------------------------------------------------------------------
(* TimeseriesRefComparisonAndTargetOutput.__init__: the target range, the    *)
(* timeseries output and the summary output are each taken from a callable   *)
(* or built from a type and further arguments.                                *)

\* The optional arguments of __init__; an argument is recorded by whether it
\* is given (not None).  The class itself defines none of the *_default_type
\* attributes, so a type that is not given stays None.
OutArgNames ==
    {"target_range", "target_range_type", "target", "range", "distance_func",
     "timeseries_output", "timeseries_output_type",
     "summary_output", "summary_output_type"}

\* _prepare_target_range
prepare_target_range(a) ==
    IF a.target_range THEN Returned("target_range(criteria)")
    ELSE IF ~a.target_range_type THEN Raised("ValueError")
    ELSE IF ~a.target THEN Raised("ValueError")
    ELSE IF ~a.range THEN Raised("ValueError")
    ELSE Returned("target_range_type(criteria, target, range, distance_func)")

\* _prepare_timeseries_output
prepare_timeseries_output(a) ==
    IF a.timeseries_output THEN Returned("timeseries_output(criteria)")
    ELSE IF ~a.timeseries_output_type THEN Raised("ValueError")
    ELSE Returned("timeseries_output_type(criteria, writer)")

\* _prepare_summary_output
prepare_summary_output(a) ==
    IF a.summary_output THEN Returned("summary_output(target_range)")
    ELSE IF ~a.summary_output_type THEN Raised("ValueError")
    ELSE Returned("summary_output_type(target_range, writer)")

\* __init__, lines 305-343: the three attributes in this order; the first
\* exception ends the construction.
output_init(a) ==
    LET tr == prepare_target_range(a)
        ts == prepare_timeseries_output(a)
        so == prepare_summary_output(a)
    IN  IF tr.tag # "ok" THEN tr
        ELSE IF ts.tag # "ok" THEN ts
        ELSE IF so.tag # "ok" THEN so
        ELSE Returned([target_range      |-> tr.val,
                       timeseries_output |-> ts.val,
                       summary_output    |-> so.val])

\* A call of __init__ with any combination of arguments given.
OutInit ==
    /\ outArgs \in [OutArgNames -> BOOLEAN]
    /\ outObject = Returned(None)
    /\ outPc = "ready"

\* No output object is under construction.
OutIdle ==
    /\ outArgs = [n \in OutArgNames |-> FALSE]
    /\ outObject = Returned(None)
    /\ outPc = "idle"

\* TimeseriesRefComparisonAndTargetOutput(criteria=..., ...)
ConstructOutput ==
    /\ UNCHANGED notOut
    /\ outPc = "ready"
    /\ outObject' = output_init(outArgs)
    /\ outPc' = "done"
    /\ UNCHANGED outArgs

-----------------------------------------------------------------------------
(* ResultOutput.write_results: prepare_output, then write_output, which      *)
(* calls writer.write.  prepare_output is abstract and write belongs to the  *)
(* writer: what they return or raise is chosen by the environment.           *)

WrData == {"data1", "data2", "data3"}
WrCriteria == {"self.criteria", "other criteria"}
WrWriters == {"self.writer", "other writer"}
WrOutputs == {"output1", "output2", "output3"}
WrReturns == {"ret1", "ret2"}

\* A writer that ignores the writer it was given, the faulty variant of
\* write_output_writer below.
write_output_writer_AlwaysOwn(writer) == wrSelf.writer

\* write_output, lines 231-232: the writer argument, or self.writer.
write_output_writer(writer) ==
    IF writer = None THEN wrSelf.writer ELSE writer[1]

\* write_results, lines 273-274: the criteria argument, or self.criteria.
write_results_criteria(crit) ==
    IF crit = None THEN wrSelf.criteria ELSE crit[1]

\* A ResultOutput before a call.
WrInit ==
    /\ wrSelf = [criteria |-> "self.criteria", writer |-> "self.writer"]
    /\ wrArgs = None
    /\ wrTrace = <<>>
    /\ wrOutput = None
    /\ wrResult = Returned(None)
    /\ wrPc = "ready"

\* No ResultOutput is in use.
WrIdle ==
    /\ wrSelf = None
    /\ wrArgs = None
    /\ wrTrace = <<>>
    /\ wrOutput = None
    /\ wrResult = Returned(None)
    /\ wrPc = "idle"

\* write_results(data, criteria, writer=writer), lines 269-274
CallWriteResults(d, crit, w) ==
    /\ UNCHANGED notWr
    /\ wrPc = "ready"
    /\ wrArgs' = [data |-> d, criteria |-> crit, writer |-> w]
    /\ wrPc' = "prepare"
    /\ UNCHANGED <<wrSelf, wrTrace, wrOutput, wrResult>>

\* lines 275-279: output = self.prepare_output(data, criteria=criteria);
\* an exception of prepare_output leaves write_results.
PrepareOutput(out) ==
    /\ UNCHANGED notWr
    /\ wrPc = "prepare"
    /\ wrTrace' = Append(wrTrace,
                         [fn |-> "prepare_output",
                          args |-> <<wrArgs.data,
                                     write_results_criteria(wrArgs.criteria)>>,
                          out |-> out])
    /\ IF out.tag = "ok"
           THEN /\ wrOutput' = Some(out.val)
                /\ wrPc' = "write"
                /\ UNCHANGED wrResult
           ELSE /\ wrResult' = out
                /\ wrPc' = "done"
                /\ UNCHANGED wrOutput
    /\ UNCHANGED <<wrSelf, wrArgs>>

\* lines 280-282: write_returnval = self.write_output(output, writer), which
\* returns writer.write(output); then return (output, write_returnval).
WriteOutput(ret) ==
    /\ UNCHANGED notWr
    /\ wrPc = "write"
    /\ wrTrace' = Append(wrTrace,
                         [fn |-> "write",
                          args |-> <<write_output_writer(wrArgs.writer),
                                     wrOutput[1]>>,
                          out |-> ret])
    /\ wrResult' = IF ret.tag = "ok" THEN Returned(<<wrOutput[1], ret.val>>)
                   ELSE ret
    /\ wrPc' = "done"
    /\ UNCHANGED <<wrSelf, wrArgs, wrOutput>>

-----------------------------------------------------------------------------
(* data.d43.get_gdp_pop_harmonisation_iamdf: two module globals cache the    *)
(* dataset with and without the iso3 column.                                  *)

Variants == {"with_iso3", "regmapped"}

\* A lookup that keeps both variants in one global, the faulty variant of
\* cache_variant below.
cache_variant_Single(with_iso3_column) == "regmapped"

\* lines 56-67: the global a call reads and writes.
cache_variant(with_iso3_column) ==
    IF with_iso3_column THEN "with_iso3" ELSE "regmapped"

\* pyam.IamDataFrame(file): a new object each time; objects are named by the
\* variant and the number of the load.
LoadedObject(v, n) == <<v, n>>

\* The module after import: nothing is cached.
CacheInit ==
    /\ iamdf_cache = [v \in Variants |-> None]
    /\ loads = [v \in Variants |-> 0]
    /\ forced = [v \in Variants |-> FALSE]
    /\ ncalls = 0
    /\ lastGet = None

\* The module is not in use.
CacheIdle ==
    /\ iamdf_cache = [v \in Variants |-> None]
    /\ loads = [v \in Variants |-> 0]
    /\ forced = [v \in Variants |-> FALSE]
    /\ ncalls = 0
    /\ lastGet = None

\* get_gdp_pop_harmonisation_iamdf(force_reload, with_iso3_column); readable
\* says whether pyam can read the data file, an exception of the load leaves
\* the globals as they were.
GetIamdf(force_reload, with_iso3_column, readable) ==
    /\ UNCHANGED notCache
    /\ ncalls < MaxGetCalls
    /\ LET v == cache_variant(with_iso3_column)
           load == iamdf_cache[v] = None \/ force_reload
           obj == LoadedObject(v, loads[v] + 1)
       IN  /\ iamdf_cache' =
                  IF load /\ readable THEN [iamdf_cache EXCEPT ![v] = Some(obj)]
                  ELSE iamdf_cache
           /\ loads' = IF load /\ readable THEN [loads EXCEPT ![v] = @ + 1]
                       ELSE loads
           /\ lastGet' = Some([force_reload |-> force_reload,
                               with_iso3_column |-> with_iso3_column,
                               before |-> iamdf_cache,
                               loaded |-> load,
                               out |-> IF ~load THEN Returned(iamdf_cache[v][1])
                                       ELSE IF readable THEN Returned(obj)
                                       ELSE Raised("OSError")])
    /\ forced' = [forced EXCEPT ![IF with_iso3_column THEN "with_iso3"
                                  ELSE "regmapped"] = @ \/ force_reload]
    /\ ncalls' = ncalls + 1

-----------------------------------------------------------------------------
(* Specifications *)

\* One CriterionTargetRange under every sequence of calls.
TRNext ==
    \/ \E t \in Vals, r \in Ranges, u \in OptUnits, cvu \in OptBools,
          ciu \in Bools, vu \in OptUnits : Construct(t, r, u, cvu, ciu, vu)
    \/ \E v \in Vals : SetTarget(v)
    \/ \E r \in Ranges : SetRange(r)
    \/ \E u \in OptUnits : SetUnit(u)
    \/ \E vu \in OptUnits : SetValueUnit(vu)
    \/ \E b \in OptBools : SetConvertValueUnits(b)
    \/ \E b \in Bools : SetConvertInputUnits(b)
    \/ \E v \in QueryVals : InRange(v)
    \/ \E v \in QueryVals : Distance(v)
SpecTRInit == TRInit /\ AggIdle /\ UnIdle /\ CmpIdle /\ RatioIdle /\ NormIdle /\ RelIdle /\ CallsIdle /\ VetIdle /\ LogIdle /\ OutIdle /\ WrIdle /\ CacheIdle
SpecTR == SpecTRInit /\ [][TRNext]_vars

\* One call of aggregate_time_and_region on every comparison series.
AggNext == AggregateTimeAndRegion
SpecAggInit == AggInit /\ TRIdle /\ UnIdle /\ CmpIdle /\ RatioIdle /\ NormIdle /\ RelIdle /\ CallsIdle /\ VetIdle /\ LogIdle /\ OutIdle /\ WrIdle /\ CacheIdle
SpecAgg == SpecAggInit /\ [][AggNext]_vars

\* One call of a unit-reconciling comparison on every pair of datasets.
UnNext == MatchUnits
SpecUnitsInit == UnInit /\ TRIdle /\ AggIdle /\ CmpIdle /\ RatioIdle /\ NormIdle /\ RelIdle /\ CallsIdle /\ VetIdle /\ LogIdle /\ OutIdle /\ WrIdle /\ CacheIdle
SpecUnits == SpecUnitsInit /\ [][UnNext]_vars

\* One comparison of every dataset against every target.
CmpNext ==
    \/ MakeOneComparison
    \/ CriterionCompare
SpecCmpInit == CmpInit /\ TRIdle /\ AggIdle /\ UnIdle /\ RatioIdle /\ NormIdle /\ RelIdle /\ CallsIdle /\ VetIdle /\ LogIdle /\ OutIdle /\ WrIdle /\ CacheIdle
SpecCmp == SpecCmpInit /\ [][CmpNext]_vars

\* One ratio comparison of every pair of aligned series.
RatioNext == RatioCompare
SpecRatioInit == RatioInit /\ TRIdle /\ AggIdle /\ UnIdle /\ CmpIdle /\ NormIdle /\ RelIdle /\ CallsIdle /\ VetIdle /\ LogIdle /\ OutIdle /\ WrIdle /\ CacheIdle
SpecRatio == SpecRatioInit /\ [][RatioNext]_vars

\* The construction of a criterion from every pair of aggregation arguments.
NormNext == NormaliseAggArgs
SpecNormInit ==
    NormInit /\ TRIdle /\ AggIdle /\ UnIdle /\ CmpIdle /\ RatioIdle /\ RelIdle
    /\ CallsIdle /\ VetIdle /\ LogIdle /\ OutIdle /\ WrIdle /\ CacheIdle
SpecNorm == SpecNormInit /\ [][NormNext]_vars

\* A target range with a relative range: construction, then assignments to
\* target.
RelNext ==
    \/ \E t \in RelTargets, fl, fu \in RelFactors : RelConstruct(t, fl, fu)
    \/ \E t \in RelTargets : RelSetTarget(t)
SpecRelInit ==
    RelInit /\ TRIdle /\ AggIdle /\ UnIdle /\ CmpIdle /\ RatioIdle /\ NormIdle
    /\ CallsIdle /\ VetIdle /\ LogIdle /\ OutIdle /\ WrIdle /\ CacheIdle
SpecRel == SpecRelInit /\ [][RelNext]_vars

\* Two invocations of get_values on one criterion, their steps interleaved
\* in every order.
CallsNext ==
    \/ \E i \in Invocations, file \in CallSubjects : CallGetValues(i, file)
    \/ \E i \in Invocations : StepBroadcast(i)
    \/ \E i \in Invocations : StepCompare(i)
    \/ \E i \in Invocations : StepAggregate(i)
    \/ \E i \in Invocations : ReturnFromCall(i)
SpecCallsInit ==
    /\ CallsInit
    /\ TRIdle /\ UnIdle /\ RatioIdle /\ NormIdle /\ RelIdle /\ VetIdle
    /\ aggIn = EmptySeries /\ aggMid = EmptySeries /\ aggOut = EmptySeries
    /\ aggPc = "idle"
    /\ data = EmptySeries /\ match_dims = {} /\ use_abs_diff = FALSE
    /\ target_broadcasted = Returned(EmptySeries)
    /\ compared = Returned(EmptySeries)
    /\ result = Returned(EmptySeries)
    /\ cmpPc = "idle" /\ LogIdle /\ OutIdle /\ WrIdle /\ CacheIdle
SpecCalls == SpecCallsInit /\ [][CallsNext]_vars

\* One call of check on every vetter and dataset.
VetNext == Check
SpecVetInit ==
    VetInit /\ TRIdle /\ AggIdle /\ UnIdle /\ CmpIdle /\ RatioIdle /\ NormIdle
    /\ RelIdle /\ CallsIdle /\ LogIdle /\ OutIdle /\ WrIdle /\ CacheIdle
SpecVet == SpecVetInit /\ [][VetNext]_vars

\* One call of a wrapped comparison function on every pair of variable sets.
LogNext == CallDecorated
SpecLogInit ==
    LogInit /\ TRIdle /\ AggIdle /\ UnIdle /\ CmpIdle /\ RatioIdle /\ NormIdle
    /\ RelIdle /\ CallsIdle /\ VetIdle /\ OutIdle /\ WrIdle /\ CacheIdle
SpecLog == SpecLogInit /\ [][LogNext]_vars

\* The construction of an output object from every combination of arguments.
OutNext == ConstructOutput
SpecOutInit ==
    OutInit /\ TRIdle /\ AggIdle /\ UnIdle /\ CmpIdle /\ RatioIdle /\ NormIdle
    /\ RelIdle /\ CallsIdle /\ VetIdle /\ LogIdle /\ WrIdle /\ CacheIdle
SpecOut == SpecOutInit /\ [][OutNext]_vars

\* One call of write_results with every choice of arguments and every
\* outcome of prepare_output and write.
WrNext ==
    \/ \E d \in WrData, crit \in {None} \cup {Some(c) : c \in WrCriteria},
          w \in {None} \cup {Some(x) : x \in WrWriters} :
              CallWriteResults(d, crit, w)
    \/ \E out \in {Returned(o) : o \in WrOutputs} \cup {Raised("TypeError")} :
              PrepareOutput(out)
    \/ \E ret \in {Returned(r) : r \in WrReturns} \cup {Raised("NoWriterError")} :
              WriteOutput(ret)
SpecWrInit ==
    WrInit /\ TRIdle /\ AggIdle /\ UnIdle /\ CmpIdle /\ RatioIdle /\ NormIdle
    /\ RelIdle /\ CallsIdle /\ VetIdle /\ LogIdle /\ OutIdle /\ CacheIdle
SpecWr == SpecWrInit /\ [][WrNext]_vars

\* Every sequence of calls of get_gdp_pop_harmonisation_iamdf.
CacheNext ==
    \E force_reload, with_iso3_column, readable \in BOOLEAN :
        GetIamdf(force_reload, with_iso3_column, readable)
SpecCacheInit ==
    CacheInit /\ TRIdle /\ AggIdle /\ UnIdle /\ CmpIdle /\ RatioIdle /\ NormIdle
    /\ RelIdle /\ CallsIdle /\ VetIdle /\ LogIdle /\ OutIdle /\ WrIdle
SpecCache == SpecCacheInit /\ [][CacheNext]_vars

-----------------------------------------------------------------------------
(* Properties of CriterionTargetRange, checked under SpecTR *)

\* The arguments of the last __init__ call.
InitTarget == last.arg[1]
InitRange == last.arg[2]
InitUnit == last.arg[3]
InitConvertValueUnits == last.arg[4]
InitConvertInputUnits == last.arg[5]
InitValueUnit == last.arg[6]

DefaultUnitOptions ==
    /\ InitUnit = None
    /\ InitConvertValueUnits = None
    /\ InitConvertInputUnits = PyFalse
    /\ InitValueUnit = None

\* C1: construction with a range (lower, upper) and the default unit options
\* succeeds whenever lower <= target <= upper, and raises, leaving no object,
\* whenever target < lower or target > upper.
C1_ConstructionChecksRange ==
    (last.op = "init" /\ InitRange # None /\ DefaultUnitOptions) =>
        /\ (InitRange[1] <= InitTarget /\ InitTarget <= InitRange[2])
              => (last.out.tag = "ok" /\ phase = "live")
        /\ (InitTarget < InitRange[1] \/ InitTarget > InitRange[2])
              => (last.out.tag # "ok" /\ phase = "failed")

\* A construction with lower < target < upper that succeeded.
C1_Witness ==
    /\ last.op = "init" /\ InitRange # None /\ DefaultUnitOptions
    /\ InitRange[1] < InitTarget /\ InitTarget < InitRange[2]
    /\ phase = "live" /\ range = InitRange /\ target = Some(InitTarget)

\* C2: in every state of a constructed object, whatever assignments to
\* target and range succeeded or raised before, range is None, or
\* range[0] <= range[1] and range[0] <= target <= range[1].
C2_TargetInsideRange ==
    phase = "live" =>
        \/ range = None
        \/ /\ range[1] <= range[2]
           /\ range[1] <= target[1]
           /\ target[1] <= range[2]

\* The state left behind by an assignment to target that raised.
C2_Witness ==
    /\ phase = "live" /\ range # None
    /\ last.op = "set_target" /\ last.out.tag = "ValueError"
    /\ last.arg[1] < range[1]

\* C3: with the default distance function and lower < target < upper, the
\* distance of the target is 0, of the upper bound +1 and of the lower
\* bound -1.
C3_DistanceAtTargetAndBounds ==
    (/\ last.op = "distance" /\ range # None
     /\ range[1] < target[1] /\ target[1] < range[2]) =>
        /\ last.arg[1] = target[1] => last.out = Returned(Whole(0))
        /\ last.arg[1] = range[2] => last.out = Returned(Whole(1))
        /\ last.arg[1] = range[1] => last.out = Returned(Whole(-1))

\* C6: in_range(value) raises ValueError whenever range is None, and
\* otherwise returns true exactly when lower <= value <= upper.
C6_InRangeInclusive ==
    last.op = "in_range" =>
        IF range = None
            THEN last.out.tag = "ValueError"
            ELSE /\ last.out.tag = "ok"
                 /\ last.out.val \in Bools
                 /\ last.out.val = PyTrue
                      <=> (range[1] <= last.arg[1] /\ last.arg[1] <= range[2])

\* in_range of the upper bound of a range with lower < upper returned True.
C6_Witness ==
    /\ last.op = "in_range" /\ range # None /\ range[1] < range[2]
    /\ last.arg[1] = range[2] /\ last.out = Returned(PyTrue)

\* C8: construction raises UnitNotSpecifiedError exactly when
\* convert_value_units is True and unit is None, or convert_value_units is
\* True and neither value_unit is given nor criterion.unit exists and is
\* not None, or convert_input_units is True and unit is None.  (Stated for
\* the constructions whose target and range are accepted.)
C8_UnitNotSpecifiedExactly ==
    (last.op = "init" /\ range_setter_check(InitTarget, InitRange) = "ok") =>
        (last.out.tag = "UnitNotSpecifiedError" <=>
            \/ InitConvertValueUnits = PyTrue /\ InitUnit = None
            \/ /\ InitConvertValueUnits = PyTrue
               /\ InitValueUnit = None
               /\ ~(criterion.has_unit /\ criterion.unit # None)
            \/ InitConvertInputUnits = PyTrue /\ InitUnit = None)

\* The last operation assigned target or range and the assignment was
\* rejected by the check of one of the two setters.
RangeAssignmentRejected ==
    /\ last.op \in {"init", "set_target", "set_range"}
    /\ last.out.tag \in {"ValueError", "InvalidRangeError"}

\* C15: every rejected assignment of target or range (a range with lower >
\* upper, a range that does not contain the target, a target outside the
\* range) raises InvalidRangeError, at construction and on later mutation.
C15_RejectionsAreInvalidRangeError ==
    RangeAssignmentRejected => last.out.tag = "InvalidRangeError"

-----------------------------------------------------------------------------
(* Properties of the aggregation order, checked under SpecAgg *)

\* C4: when agg_dim_order is REGION_FIRST the region aggregation is applied
\* to the comparison series first and the time aggregation to its result;
\* when it is TIME_FIRST the time aggregation is applied first and the region
\* aggregation second.
C4_AggregationOrder ==
    aggPc = "done" =>
        IF agg_dim_order = REGION_FIRST
            THEN /\ aggMid = aggregate_region(aggIn)
                 /\ aggOut = aggregate_time(aggMid)
            ELSE /\ aggMid = aggregate_time(aggIn)
                 /\ aggOut = aggregate_region(aggMid)

\* The aggregation order other than the one of the criterion.
OtherOrder == IF agg_dim_order = REGION_FIRST THEN TIME_FIRST ELSE REGION_FIRST

\* The grid has been aggregated with region_agg max and time_agg mean.
GridAggregated ==
    /\ aggPc = "done"
    /\ aggIn = Grid19
    /\ region_agg = "max"
    /\ time_agg = "mean"

\* C11: for the grid [[1, 9], [9, 1]] with region aggregation max and time
\* aggregation mean, the scalar obtained with one agg_dim_order differs from
\* the scalar a criterion with the other agg_dim_order obtains.
C11_OrdersDifferOnGrid ==
    GridAggregated =>
        /\ Cardinality(DOMAIN aggOut) = 1
        /\ DOMAIN aggregate_in_order(aggIn, OtherOrder).out = DOMAIN aggOut
        /\ \A k \in DOMAIN aggOut :
               aggOut[k] # aggregate_in_order(aggIn, OtherOrder).out[k]

\* The grid aggregated by a REGION_FIRST criterion: one scalar, 5 or 9.
C11_Witness ==
    /\ GridAggregated
    /\ agg_dim_order = REGION_FIRST
    /\ \E k \in DOMAIN aggOut : aggOut[k] \in {Whole(5), Whole(9)}

\* The index levels of a series: the fields of its keys.
LevelsOf(s) == UNION {DOMAIN k : k \in DOMAIN s}

\* C14: for a comparison series indexed by model, scenario, region,
\* variable, unit and year, the aggregated series that get_values returns
\* has only the index levels model and scenario, with exactly one value per
\* (model, scenario) pair of the comparison series.
C14_GetValuesIndexLevels ==
    (aggPc = "done" /\ aggIn # EmptySeries) =>
        /\ LevelsOf(aggOut) = {"model", "scenario"}
        /\ DOMAIN aggOut =
               {[model |-> k.model, scenario |-> k.scenario] : k \in DOMAIN aggIn}

-----------------------------------------------------------------------------
(* Claims about unit reconciliation (SpecUnits) *)

\* The variables of the reference (the first argument, the one converted)
\* that need conversion and have more than one unit in the reference.
AmbiguousInReference ==
    {var \in differing_vars(iamdf1, iamdf2) : Cardinality(UnitsOf(iamdf1, var)) > 1}

\* C9: the unit-reconciling comparison raises an error, instead of
\* converting or guessing, whenever a variable that needs conversion has
\* more than one unit in the reference dataset.
C9_RaisesOnAmbiguousReferenceUnit ==
    (unPc = "done" /\ AmbiguousInReference # {}) => consistent.tag # "ok"

\* The variables that both datasets have.
SharedVariables == DimValues(iamdf1, "variable") \cap DimValues(iamdf2, "variable")

\* Every shared variable has the same units in both datasets.
UnitsAlreadyMatch ==
    \A var \in SharedVariables : UnitsOf(iamdf1, var) = UnitsOf(iamdf2, var)

\* C12: when every variable shared by the two datasets already has the same
\* unit in both, make_consistent_units returns data with exactly the keys,
\* units and values of its input: nothing is converted, added, dropped or
\* duplicated.
C12_NoMismatchIsIdentity ==
    (unPc = "done" /\ UnitsAlreadyMatch) => consistent = Returned(iamdf1)

\* A dataset of two rows with a variable shared with the other dataset, in
\* the same unit, has been returned as it was.
C12_Witness ==
    /\ unPc = "done"
    /\ UnitsAlreadyMatch
    /\ SharedVariables # {}
    /\ Cardinality(DOMAIN iamdf1) = 2
    /\ consistent.tag = "ok"
    /\ consistent.val = iamdf1

-----------------------------------------------------------------------------
(* Claims about the ratio comparison (SpecRatio) *)

\* C7: for every key the ratio comparison returns subject/reference when
\* the reference is non-zero (0 for subject 0), the divide-by-zero sentinel
\* when the reference is zero and the subject is not, and the zero-over-zero
\* sentinel when both are zero; it never returns NaN.
C7_RatioZeroHandling ==
    ratioPc = "done" =>
        \A k \in RatioKeys :
            /\ k \in DOMAIN ratio
            /\ ratio[k] # NaN
            /\ ref[k] # Whole(0) =>
                   /\ ratio[k][2] > 0
                   /\ ratio[k][1] * ref[k][1] = subject[k][1] * ratio[k][2]
            /\ (ref[k] = Whole(0) /\ subject[k] # Whole(0)) =>
                   ratio[k] = div_by_zero_value
            /\ (ref[k] = Whole(0) /\ subject[k] = Whole(0)) =>
                   ratio[k] = zero_by_zero_value

\* A call with the sentinels of the harmonisation criterion that meets all
\* three cases: 0/0, 2/0 and 0/2.
C7_Witness ==
    /\ ratioPc = "done"
    /\ div_by_zero_value = HarmonizationDivByZero
    /\ zero_by_zero_value = HarmonizationZeroByZero
    /\ \E a, b, c \in RatioKeys :
        /\ subject[a] = Whole(0) /\ ref[a] = Whole(0) /\ ratio[a] = Whole(1)
        /\ subject[b] = Whole(2) /\ ref[b] = Whole(0) /\ ratio[b] = PosInf
        /\ subject[c] = Whole(0) /\ ref[c] = Whole(2) /\ ratio[c] = Whole(0)

-----------------------------------------------------------------------------
(* Claims about comparisons against a target (SpecCmp) *)

\* The dimensions broadcast over by the call that has been made.
BroadcastOver ==
    IF cmpPc = "checked"
        THEN {Dimensions[i] : i \in broadcast_dims(data, match_dims)}
        ELSE CriterionBroadcastDims

AmbiguousReference ==
    \E dim \in BroadcastOver : Cardinality(DimValues(reference, dim)) >= 2

\* C5: when the reference has two or more distinct values in a dimension
\* that is broadcast over, every check and every compare call raises an
\* error and returns no result; no broadcast reference is built from one
\* of the values.
C5_AmbiguousBroadcastRaises ==
    (cmpPc \in {"checked", "compared"} /\ AmbiguousReference) =>
        /\ result.tag = "ValueError"
        /\ target_broadcasted.tag = "ValueError"

\* A check of a non-empty dataset against a target with two models, the
\* model being broadcast over, has raised.
C5_Witness ==
    /\ cmpPc = "checked"
    /\ data # EmptySeries
    /\ "model" \in BroadcastOver
    /\ Cardinality(DimValues(reference, "model")) = 2
    /\ result.tag = "ValueError"

\* The broadcast target in the units of the data: the frame that the
\* difference comparison is given as its target.
ConvertedTarget == make_consistent_units(target_broadcasted.val, data)

\* The keys that the data and the broadcast target both have.
CommonKeys == DOMAIN data \cap DOMAIN ConvertedTarget.val

\* The difference comparison has been called.
DiffCalled ==
    /\ cmpPc = "checked"
    /\ target_broadcasted.tag = "ok"
    /\ ConvertedTarget.tag = "ok"

\* C10: the keys of the result of the difference comparison are the keys
\* present in both the data and the broadcast target, each with the
\* difference of the two values; a key present in only one of them never
\* appears, no error is raised and no placeholder row is produced.
C10_DifferenceKeepsCommonKeys ==
    DiffCalled =>
        /\ compared.tag = "ok"
        /\ DOMAIN compared.val = CommonKeys
        /\ \A k \in CommonKeys :
               compared.val[k] =
                   IF use_abs_diff
                       THEN FracAbs(FracSub(data[k], ConvertedTarget.val[k]))
                       ELSE FracSub(data[k], ConvertedTarget.val[k])
        /\ result.tag = "ok"
        /\ Cardinality(DOMAIN result.val) = Cardinality(CommonKeys)

\* A comparison in which one key is common, one is only in the data and one
\* is only in the broadcast target; the result has the common key alone.
C10_Witness ==
    /\ DiffCalled
    /\ Cardinality(CommonKeys) = 1
    /\ DOMAIN data \ CommonKeys # {}
    /\ DOMAIN ConvertedTarget.val \ CommonKeys # {}
    /\ DOMAIN compared.val = CommonKeys
    /\ \E k \in DOMAIN result.val : k.variable = "Primary Energy|Difference"

-----------------------------------------------------------------------------
(* Claims about the aggregation arguments (SpecNorm) *)

\* The AggFuncTuple an accepted argument must be normalised to: the one
\* built from (func, args, kwargs), with () and {} for what is not given.
Normalised(arg) ==
    [func   |-> arg.items[1],
     args   |-> IF Len(arg.items) >= 2 THEN arg.items[2] ELSE Tup(<<>>),
     kwargs |-> IF Len(arg.items) >= 3 THEN arg.items[3] ELSE {}]

\* C13: an aggregation specification accepted as region_agg or time_agg, in
\* any form (string, callable, tuple or AggFuncTuple), is normalised at
\* construction to the same AggFuncTuple representation; a bare func f
\* yields an AggFuncTuple equal to the one built from (f, (), {}).
C13_AggSpecNormalised ==
    normPc = "done" =>
        /\ crit_time_agg.tag = "ok" => crit_time_agg.val = Normalised(time_agg_arg)
        /\ crit_region_agg.tag = "ok" /\ crit_time_agg.tag = "ok" =>
               crit_region_agg.val = Normalised(region_agg_arg)
        /\ (time_agg_arg.form = "bare" /\ crit_time_agg.tag = "ok") =>
               crit_time_agg =
                   make_agg_func_tuple(TupleArg(<<time_agg_arg.items[1], Tup(<<>>), {}>>))

\* A bare string for time_agg and a (callable, args, kwargs) tuple for
\* region_agg have both been accepted.
C13_Witness ==
    /\ normPc = "done"
    /\ time_agg_arg = BareArg(StrFunc("mean"))
    /\ region_agg_arg = TupleArg(<<CallableFunc("numpy.max"), Tup(<<1>>), {<<"skipna", TRUE>>}>>)
    /\ crit_time_agg = Returned([func |-> StrFunc("mean"), args |-> Tup(<<>>), kwargs |-> {}])
    /\ crit_region_agg.tag = "ok"

-----------------------------------------------------------------------------
(* Claims about a target range with a relative range (SpecRel) *)

\* C16: for a target range built with a relative range of factors
\* (f_lower, f_upper), the absolute bounds are (f_lower * target,
\* f_upper * target) after construction and after every successful
\* assignment to target.
C16_RelativeBoundsFollowTarget ==
    relPhase = "live" =>
        /\ relRange[1] = FracMulInt(relFactors[1].lower, relTarget[1])
        /\ relRange[2] = FracMulInt(relFactors[1].upper, relTarget[1])

\* The target of a range with factors (1/2, 3/2) has been moved to 3 by an
\* assignment, and the bounds are those of the new target: (3/2, 9/2).
C16_Witness ==
    /\ relPhase = "live"
    /\ relLast.op = "set_target" /\ relLast.out.tag = "ok"
    /\ relFactors[1] = RelativeRange(Frac(1, 2), Frac(3, 2))
    /\ relTarget = Some(3)
    /\ relRange = <<Frac(3, 2), Frac(9, 2)>>

-----------------------------------------------------------------------------
(* Claims about invocations of get_values (SpecCalls) *)

\* Invocation i is in progress before and after the step.
InProgress(i) == calls[i].pc # "idle" /\ calls'[i].pc # "idle"

C18_InterleavedCallsIndependent ==
    \A i \in Invocations :
        /\ calls[i].pc \in {"broadcast", "compared"} =>
               calls[i].bref =
                   pyam_helpers_broadcast_dims(reference, calls[i].file,
                                               CriterionBroadcastDims)
        /\ calls[i].pc = "compared" =>
               calls[i].cmp = comparison_function(calls[i].bref.val, calls[i].file)
        /\ calls[i].pc = "done" => calls[i].out = get_values(calls[i].file)

\* Two invocations with different non-empty subjects in progress at once:
\* one has its value, the other is between compare and the aggregation.
C18_Witness ==
    /\ calls[1].pc = "done" /\ calls[1].out.tag = "ok"
    /\ calls[2].pc = "compared"
    /\ calls[1].file # EmptySeries /\ calls[2].file # EmptySeries
    /\ calls[1].file # calls[2].file
    /\ DOMAIN calls[1].out.val # {}


-----------------------------------------------------------------------------
(* Properties of IamDataFrameTimeseriesVetter.check, checked under SpecVet *)

\* The concatenation of the configured comparisons, in order, applied to a
\* value and the target of the vetter.
ComparisonsOf(value) ==
    LET one(i) == make_one_comparison(value, vetTarget, comparisons[i])
        failed == {i \in DOMAIN comparisons : one(i).tag # "ok"}
        first == CHOOSE i \in failed : \A j \in failed : i <= j
    IN  IF failed # {} THEN one(first)
        ELSE Concat({[tag |-> i, df |-> one(i).val] : i \in DOMAIN comparisons})

CheckReturned == vetPc = "done" /\ checked.tag = "ok"

\* C19: the result of check(data) has as value the data after the filter, as
\* target_value the target, as measure the concatenation of the configured
\* comparisons applied to that value and the target, and as status
\* status_mapping(measure).
C19_CheckResultFields ==
    CheckReturned =>
        /\ Returned(checked.val.value) = apply_filter(vetFilter, vetData)
        /\ checked.val.target_value = vetTarget
        /\ Returned(checked.val.measure) = ComparisonsOf(checked.val.value)
        /\ checked.val.status = status_mapping(checked.val.measure)

\* The variable names of the data that was compared.
OriginalVariables == DimValues(vetData, "variable")

\* The suffix a comparison is documented to use for the var_suffix argument
\* it was given.
DocumentedSuffix(c) ==
    IF c.args[2] # None THEN c.args[2][1]
    ELSE IF c.use_abs_diff THEN "|Absolute Difference"
    ELSE "|Difference"

\* C20: every variable name in the measure is var_prefix + original name +
\* var_suffix of one of the comparisons, var_suffix being '|Difference' by
\* default ('|Absolute Difference' with use_abs_diff); with an empty prefix
\* and an empty suffix the names are the original ones.
C20_MeasureVariablesRenamed ==
    CheckReturned =>
        \A k \in DOMAIN checked.val.measure :
            \E i \in DOMAIN comparisons :
                /\ \E v \in OriginalVariables :
                       k.variable = comparisons[i].args[1] \o v
                                        \o DocumentedSuffix(comparisons[i])
                /\ comparisons[i].args = <<"", <<"">>>>
                       => k.variable \in OriginalVariables

\* A check that returned a measure with rows, from a comparison with a
\* prefix and the default suffix.
C20_Witness ==
    /\ CheckReturned
    /\ Len(comparisons) = 1
    /\ comparisons[1].args = <<"Vetting|", None>>
    /\ \E k \in DOMAIN checked.val.measure :
           k.variable = "Vetting|Primary Energy|Difference"

-----------------------------------------------------------------------------
(* Properties of log_variable_mismatches, checked under SpecLog *)

\* The records the wrapper is documented to write.
DocumentedLog ==
    IF logger = None THEN {}
    ELSE {r \in {LogRecord("INFO", logData \ logTarget),
                 LogRecord("WARNING", logTarget \ logData)} : r.names # {}}

\* C21: with a logger, the wrapper logs at INFO the variables that are in
\* data but not in target and at WARNING those in target but not in data,
\* nothing for an empty difference, and nothing at all without a logger.
C21_MismatchLogLevels ==
    logPc = "done" =>
        /\ {logged[i] : i \in DOMAIN logged} = DocumentedLog
        /\ Len(logged) = Cardinality(DocumentedLog)

-----------------------------------------------------------------------------
(* Properties of TimeseriesRefComparisonAndTargetOutput, checked under       *)
(* SpecOut                                                                    *)

\* C22: constructing the output with target_range set raises ValueError
\* whenever target, range or distance_func is set as well.
C22_TargetRangeExcludesParts ==
    (/\ outPc = "done"
     /\ outArgs.target_range
     /\ outArgs.target \/ outArgs.range \/ outArgs.distance_func)
        => outObject = Raised("ValueError")

-----------------------------------------------------------------------------
(* Properties of ResultOutput.write_results, checked under SpecWr *)

CallsOf(fn) == {i \in DOMAIN wrTrace : wrTrace[i].fn = fn}

-----------------------------------------------------------------------------
(* Properties of get_gdp_pop_harmonisation_iamdf, checked under SpecCache *)

\* The variant the last call asked for.
Requested == IF lastGet[1].with_iso3_column THEN "with_iso3" ELSE "regmapped"

\* C24: a call loads the data file only when force_reload is true or nothing
\* is cached for the requested variant, and otherwise returns the cached
\* object; the variants are cached independently, and without force_reload a
\* variant is loaded at most once.
C24_LoadsOnlyWhenNeeded ==
    /\ lastGet # None =>
           /\ lastGet[1].loaded <=>
                  (lastGet[1].force_reload \/ lastGet[1].before[Requested] = None)
           /\ ~lastGet[1].loaded =>
                  /\ Some(lastGet[1].out.val) = lastGet[1].before[Requested]
                  /\ iamdf_cache = lastGet[1].before
           /\ \A v \in Variants \ {Requested} :
                  iamdf_cache[v] = lastGet[1].before[v]
           /\ lastGet[1].out.tag = "ok" =>
                  iamdf_cache[Requested] = Some(lastGet[1].out.val)
    /\ \A v \in Variants : ~forced[v] => loads[v] <= 1

\* Both variants are cached, each loaded once, and the last call was served
\* from the cache.
C24_Witness ==
    /\ lastGet # None
    /\ ~lastGet[1].loaded
    /\ lastGet[1].with_iso3_column
    /\ loads = [v \in Variants |-> 1]
    /\ \A v \in Variants : iamdf_cache[v] # None

-----------------------------------------------------------------------------
(* The broadcast target of _make_one_comparison, checked under SpecCmp *)

\* The names of the dimensions the target is broadcast over.
BroadcastNames == {Dimensions[i] : i \in broadcast_dims(data, match_dims)}

\* A key with its broadcast dimensions set to those of a key of the data.
Relabelled(k, d) ==
    [dim \in DOMAIN k |-> IF dim \in BroadcastNames THEN d[dim] ELSE k[dim]]

\* The target replicated to every combination of broadcast-dimension values
\* that the data has.
ReplicatedTarget ==
    {Relabelled(k, d) : k \in DOMAIN reference, d \in DOMAIN data}

\* C25: the broadcast target holds, for every combination of values that the
\* data has in the broadcast dimensions, a copy of the rows of the target
\* relabelled to that combination, and no other row, also with two or more
\* broadcast dimensions.
C25_BroadcastCoversCombinations ==
    (cmpPc = "checked" /\ target_broadcasted.tag = "ok") =>
        /\ DOMAIN target_broadcasted.val = ReplicatedTarget
        /\ \A k \in DOMAIN reference, d \in DOMAIN data :
               target_broadcasted.val[Relabelled(k, d)] = reference[k]

-----------------------------------------------------------------------------
(* Further properties of CriterionTargetRange, checked under SpecTR *)

DistanceQueried == phase = "live" /\ last.op = "distance"

StrictlyInside == range # None /\ range[1] < target[1] /\ target[1] < range[2]

\* A distance between -1 and +1, both included.
WithinUnit(out) ==
    /\ out.tag = "ok"
    /\ FracLE(Whole(0 - 1), out.val)
    /\ FracLE(out.val, Whole(1))

\* C27: with lower < target < upper and the default distance function,
\* in_range(value) is true exactly when the distance of the value lies
\* between -1 and +1 inclusive.
C27_InRangeIffUnitDistance ==
    (phase = "live" /\ StrictlyInside) =>
        /\ last.op = "distance" =>
               (in_range(last.arg[1]) = Returned(PyTrue) <=> WithinUnit(last.out))
        /\ last.op = "in_range" =>
               (last.out = Returned(PyTrue)
                    <=> WithinUnit(default_distance_func(last.arg[1])))

\* A value above the upper bound was found out of range, its distance is 2.
C27_Witness ==
    /\ phase = "live"
    /\ target = Some(1) /\ range = <<0, 2>>
    /\ last.op = "in_range" /\ last.arg = Some(3)
    /\ last.out = Returned(PyFalse)
    /\ default_distance_func(3) = Returned(Whole(2))

\* C28: after any sequence of assignments to unit, value_unit,
\* convert_value_units and convert_input_units of a constructed object, the
\* unit specification is sufficient: a true conversion flag implies that
\* unit is not None; assigning None to unit under a true flag is rejected.
C28_UnitSpecsStaySufficient ==
    phase = "live" =>
        /\ Truthy(convert_value_units) => unit # None
        /\ Truthy(convert_input_units) => unit # None

\* C29: for every target and range that construction accepts, the degenerate
\* ranges lower = target, upper = target and lower = upper included, the
\* default distance returns a number for every value and 0 for the target.
C29_DistanceNeverDividesByZero ==
    DistanceQueried =>
        /\ last.out.tag = "ok"
        /\ last.arg[1] = target[1] => last.out = Returned(Whole(0))

-----------------------------------------------------------------------------
(* make_consistent_units on datasets with several units, checked under       *)
(* SpecUnits                                                                  *)

\* A key without its unit.
WithoutUnit(k) == [dim \in DOMAIN k \ {"unit"} |-> k[dim]]

\* Each (model, scenario, region, variable, year) of df has one row, and
\* each shared variable has one unit in match_df.
Reconcilable ==
    /\ \A j, k \in DOMAIN iamdf1 : WithoutUnit(j) = WithoutUnit(k) => j = k
    /\ \A var \in SharedVariables : Cardinality(UnitsOf(iamdf2, var)) = 1

\* The unit a variable has in match_df.
MatchUnit(var) == CHOOSE u \in UnitsOf(iamdf2, var) : TRUE

\* The row of df at key k, in the unit of match_df when the variable is
\* shared.
ReconciledKey(k) ==
    IF k.variable \in SharedVariables
        THEN [k EXCEPT !.unit = MatchUnit(k.variable)]
        ELSE k

ReconciledValue(k) ==
    IF k.variable \in SharedVariables /\ k.unit # MatchUnit(k.variable)
        THEN ConvertValue(iamdf1[k], k.unit, MatchUnit(k.variable))
        ELSE iamdf1[k]

\* C30: in the result of make_consistent_units(df, match_df) every key of df
\* appears exactly once; a variable present in both carries the unit it has
\* in match_df, converted only where the unit differed; rows of variables
\* absent from match_df are kept as they are, also when a variable has more
\* than one unit in df.
C30_ReconciledOnceEach ==
    (unPc = "done" /\ Reconcilable) =>
        /\ consistent.tag = "ok"
        /\ DOMAIN consistent.val = {ReconciledKey(k) : k \in DOMAIN iamdf1}
        /\ \A k \in DOMAIN iamdf1 :
               consistent.val[ReconciledKey(k)] = ReconciledValue(k)

=============================================================================
